---- MODULE Spec2Model ----
(***************************************************************************)
(* A model of the reactivego/scheduler package: the serial scheduler       *)
(* (trampoline.go) and the concurrent scheduler (goroutine.go).            *)
(*                                                                         *)
(* Time is a logical clock `now`, counted in ticks.  Every owner (the      *)
(* goroutine that owns a trampoline) is a sequential process whose call    *)
(* stack is kept in `stack`; cancellation channels are numbered and the    *)
(* closed ones are kept in `closed`.                                       *)
(***************************************************************************)
EXTENDS Integers, Sequences, FiniteSets, TLC

\* ------------------------------------------------------------------ bounds
\* Number of queue entries ever created on the serial scheduler.
MaxTasks == 3
\* Number of queue entries ever created on the private trampolines of the
\* concurrent scheduler.
MaxChain == 2
\* Last tick of the logical clock.
MaxTime == 2
\* Largest delay passed to ScheduleFuture / again(due).
MaxDue == 2
\* Deepest nesting of Wait/Gosched calls on one owner's stack.
MaxDepth == 2
\* Number of execution units the concurrent scheduler starts.
MaxUnits == 2
\* Largest index passed to ScheduleLoop and to its again closure.
MaxIndex == 1

\* 999*time.Millisecond in RunTask, in ticks of the logical clock.
ShortWaitLimit == 2

\* The goroutine that calls New() and owns the serial scheduler.
Main == 0
Units == 1..MaxUnits
Owners == {Main} \cup Units
Dues == 0..MaxDue
\* The delays passed to the concurrent scheduler: none, and one long
\* enough for the long wait of the private trampoline.
GoDues == {0, MaxDue}
MaxChans == MaxTasks + MaxUnits
Chans == 1..MaxChans
\* The entries owner o may still create.
Quota(o) == IF o = Main THEN MaxTasks ELSE MaxChain

VARIABLES
    now,        \* time.Now()
    closed,     \* the cancel channels that have been closed
    early,      \* the work whose Runner was canceled before its due time
    panicked,   \* a goroutine panicked (close of closed channel)
    nchan,      \* number of cancel channels made so far
    known,      \* the Runners that have been returned to a caller
    nseq,       \* number of queue entries created so far
    iters,      \* per cancel channel: entries enqueued carrying it
    tasks,      \* trampoline.tasks, per owner
    current,    \* trampoline.current, per owner
    stack,      \* the owner's call stack: Wait / Gosched frames
    started,    \* log of task.run() invocations, in order
    active,     \* goroutine.active
    wg,         \* goroutine.concurrent (the WaitGroup counter)
    unit,       \* the execution units started by the concurrent scheduler
    mainpc      \* the main goroutine: before, in or after goroutine.Wait

tvars == <<tasks, current, stack>>
hvars == <<started, nseq, iters>>
cvars == <<closed, early, panicked, nchan, known>>
gvars == <<active, wg, unit, mainpc>>
vars == <<now, closed, early, panicked, nchan, known, nseq, iters, tasks, current,
          stack, started, active, wg, unit, mainpc>>

\* ------------------------------------------------------------- futuretask
\* The nil *futuretask.
NoTask == [seq |-> 0, at |-> 0, cancel |-> 0, kind |-> "nil", iter |-> 0]

\* futuretask{at, run, cancel}; seq and iter number the entry.
futuretask(n, t, c, k, i) ==
    [seq |-> n, at |-> t, cancel |-> c, kind |-> k, iter |-> i]

\* case <-task.cancel: a closed channel is always ready.
Canceled(t) == t.cancel \in closed

\* ------------------------------------------------------------- sort.Stable
\* A faulty comparison: not strict, so sort.Stable would put a new entry
\* before the entries that are due at the same time.
LessLIFO(a, b) == a.at <= b.at

\* trampoline.Less
Less(a, b) == a.at < b.at

\* Insertion of e into the sorted sequence s behind every element that is
\* not greater than e.
RECURSIVE InsertStable(_, _)
InsertStable(s, e) ==
    IF s = <<>> THEN <<e>>
    ELSE IF Less(e, s[Len(s)]) THEN Append(InsertStable(SubSeq(s, 1, Len(s) - 1), e), s[Len(s)])
    ELSE Append(s, e)

\* sort.Stable(s): an insertion sort, which keeps equal elements in order.
RECURSIVE StableSort(_)
StableSort(s) ==
    IF s = <<>> THEN <<>>
    ELSE InsertStable(StableSort(SubSeq(s, 1, Len(s) - 1)), s[Len(s)])

\* A faulty enqueue: the append without the sort.
EnqueueUnsorted(q, e) == Append(q, e)

\* s.tasks = append(s.tasks, t); sort.Stable(s)
Enqueue(q, e) == StableSort(Append(q, e))

\* The record of one invocation of a task: the entry, whether its cancel
\* channel was closed when it was invoked, and whether it was closed before
\* the entry's due time.  The task of execution unit u has the number -u.
Started(o, t) ==
    [owner |-> o, seq |-> t.seq, at |-> t.at, cancel |-> t.cancel,
     kind |-> t.kind, iter |-> t.iter,
     canceled |-> Canceled(t),
     early |-> t.seq \in early]

\* ------------------------------------------------------------ call stack
Top(o) == stack[o][Len(stack[o])]

\* The owner is outside the scheduler or inside a task body: it can call
\* the scheduler.
CanCall(o) == IF stack[o] = <<>> THEN TRUE ELSE Top(o).pc = "run"

\* One activation of Wait or Gosched: where it is in RunTask, the entry it
\* popped and the deadline of the timer LongWaitAndRun armed.
Frame(c, p, t, d) == [call |-> c, pc |-> p, task |-> t, timer |-> d]

\* Number of task.run() invocations in progress on the owner's stack.
Depth(o) == Cardinality({i \in 1..Len(stack[o]) : stack[o][i].pc = "run"})

\* trampoline.Count
Count(o) ==
    IF current[o] = NoTask THEN Len(tasks[o]) ELSE Len(tasks[o]) + 1

\* time.Until(s.current.at) < 999*time.Millisecond
IsShortWait(t) == t.at - now < ShortWaitLimit

\* ------------------------------------------------------------------ Init
Init ==
    /\ now = 0
    /\ closed = {}
    /\ early = {}
    /\ panicked = FALSE
    /\ nchan = 0
    /\ known = {}
    /\ nseq = 0
    /\ iters = [c \in Chans |-> 0]
    /\ tasks = [o \in Owners |-> <<>>]
    /\ current = [o \in Owners |-> NoTask]
    /\ stack = [o \in Owners |-> <<>>]
    /\ started = <<>>
    /\ active = 0
    /\ wg = 0
    /\ unit = <<>>
    /\ mainpc = "idle"

\* ----------------------------------------------------------- environment
\* The entries of one owner that were enqueued or popped and not invoked.
Pending(o) ==
    {tasks[o][i] : i \in 1..Len(tasks[o])} \cup
    {stack[o][i].task : i \in {j \in 1..Len(stack[o]) :
                                  stack[o][j].pc \in {"short", "long", "select"}}}

\* The work of Runner c whose due time is still ahead: queue entries by
\* their number, the task of a ScheduleFuture unit u as -u (before its
\* timer is armed the due time is ahead whenever due > 0).
NotYetDue(c) ==
    {t.seq : t \in {e \in UNION {Pending(o) : o \in Owners} :
                       e.cancel = c /\ now < e.at}} \cup
    {0 - u : u \in {v \in DOMAIN unit :
                      /\ unit[v].cancel = c
                      /\ \/ unit[v].pc \in {"counted", "spawned"} /\ unit[v].due > 0
                         \/ unit[v].pc = "select" /\ now < unit[v].timer}}

\* The process runs until a goroutine panics.
Alive == ~panicked

\* The clock advances.
Tick ==
    /\ Alive
    /\ now < MaxTime
    /\ now' = now + 1
    /\ UNCHANGED <<cvars, hvars, tvars, gvars>>

\* A faulty Cancel: the caller also takes the entries that carry the
\* channel out of the queues.
CancelDequeues(c) ==
    /\ Alive
    /\ c \in known
    /\ IF c \in closed
       THEN panicked' = TRUE /\ UNCHANGED <<closed, early>>
       ELSE /\ closed' = closed \cup {c}
            /\ early' = early \cup NotYetDue(c)
            /\ UNCHANGED panicked
    /\ tasks' = [o \in Owners |-> SelectSeq(tasks[o], LAMBDA e : e.cancel # c)]
    /\ UNCHANGED <<now, nchan, known, hvars, current, stack, gvars>>

\* futuretask.Cancel and cancel.Cancel: close(t.cancel), by any goroutine
\* that holds the Runner.  Closing a closed channel panics.
Cancel(c) ==
    /\ Alive
    /\ c \in known
    /\ IF c \in closed
       THEN panicked' = TRUE /\ UNCHANGED <<closed, early>>
       ELSE /\ closed' = closed \cup {c}
            /\ early' = early \cup NotYetDue(c)
            /\ UNCHANGED panicked
    /\ UNCHANGED <<now, nchan, known, hvars, tvars, gvars>>

\* ------------------------------------------------------------- trampoline
\* t := futuretask{...cancel: make(chan struct{})}; append; sort.Stable:
\* the entry of a new Runner, due at now + due.
Submit(o, due, kind) ==
    LET c == nchan + 1 IN
    /\ nseq < Quota(o)
    /\ now + due <= MaxTime
    /\ tasks' = [tasks EXCEPT ![o] = Enqueue(@, futuretask(nseq + 1, now + due, c, kind, 0))]
    /\ nchan' = c
    /\ nseq' = nseq + 1
    /\ iters' = [iters EXCEPT ![c] = 1]

\* The again closure of chain c: t.at = time.Now().Add(due); append;
\* sort.Stable.  The closure exists once the task has been handed it.
Resubmit(o, c, due, kind) ==
    /\ nseq < Quota(o)
    /\ now + due <= MaxTime
    /\ \E i \in DOMAIN started :
          started[i].owner = o /\ started[i].cancel = c /\ started[i].kind = kind
    /\ tasks' = [tasks EXCEPT ![o] = Enqueue(@, futuretask(nseq + 1, now + due, c, kind, iters[c]))]
    /\ nseq' = nseq + 1
    /\ iters' = [iters EXCEPT ![c] = @ + 1]

\* trampoline.Schedule
Schedule(o) ==
    /\ Alive
    /\ CanCall(o)
    /\ Submit(o, 0, "plain")
    /\ known' = known \cup {nchan'}
    /\ UNCHANGED <<now, closed, early, panicked, current, stack, started, gvars>>

\* trampoline.ScheduleFuture
ScheduleFuture(o, due) ==
    /\ Alive
    /\ CanCall(o)
    /\ Submit(o, due, "plain")
    /\ known' = known \cup {nchan'}
    /\ UNCHANGED <<now, closed, early, panicked, current, stack, started, gvars>>

\* trampoline.ScheduleRecursive
ScheduleRecursive(o) ==
    /\ Alive
    /\ CanCall(o)
    /\ Submit(o, 0, "rec")
    /\ known' = known \cup {nchan'}
    /\ UNCHANGED <<now, closed, early, panicked, current, stack, started, gvars>>

\* trampoline.ScheduleFutureRecursive
ScheduleFutureRecursive(o, due) ==
    /\ Alive
    /\ CanCall(o)
    /\ Submit(o, due, "futrec")
    /\ known' = known \cup {nchan'}
    /\ UNCHANGED <<now, closed, early, panicked, current, stack, started, gvars>>

\* A faulty again(): the next iteration is invoked directly, as a nested
\* call, instead of being enqueued.
AgainInvokes(o, c) ==
    /\ Alive
    /\ CanCall(o)
    /\ stack[o] # <<>>
    /\ Len(stack[o]) < MaxDepth
    /\ \E i \in DOMAIN started :
          started[i].owner = o /\ started[i].cancel = c /\ started[i].kind = "rec"
    /\ nseq < Quota(o)
    /\ LET t == futuretask(nseq + 1, now, c, "rec", iters[c]) IN
       /\ stack' = [stack EXCEPT ![o] = Append(@, Frame("again", "run", t, 0))]
       /\ started' = Append(started, Started(o, t))
    /\ nseq' = nseq + 1
    /\ iters' = [iters EXCEPT ![c] = @ + 1]
    /\ UNCHANGED <<now, cvars, tasks, current, gvars>>

\* A faulty again() on a private trampoline: every self() call counts as
\* one more active unit, as a goroutine per iteration would.
AgainCounts(o, c) ==
    /\ Alive
    /\ CanCall(o)
    /\ Resubmit(o, c, 0, "rec")
    /\ active' = active + 1
    /\ UNCHANGED <<now, cvars, current, stack, started, wg, unit, mainpc>>

\* A faulty again(): the next iteration is put at the head of the queue,
\* before the entries that are already due.
AgainJumpsQueue(o, c) ==
    /\ Alive
    /\ CanCall(o)
    /\ nseq < Quota(o)
    /\ \E i \in DOMAIN started :
          started[i].owner = o /\ started[i].cancel = c /\ started[i].kind = "rec"
    /\ tasks' = [tasks EXCEPT ![o] = <<futuretask(nseq + 1, now, c, "rec", iters[c])>> \o @]
    /\ nseq' = nseq + 1
    /\ iters' = [iters EXCEPT ![c] = @ + 1]
    /\ UNCHANGED <<now, cvars, current, stack, started, gvars>>

\* again() of ScheduleRecursive
Again(o, c) ==
    /\ Alive
    /\ CanCall(o)
    /\ Resubmit(o, c, 0, "rec")
    /\ UNCHANGED <<now, cvars, current, stack, started, gvars>>

\* again(due) of ScheduleFutureRecursive
AgainDue(o, c, due) ==
    /\ Alive
    /\ CanCall(o)
    /\ Resubmit(o, c, due, "futrec")
    /\ UNCHANGED <<now, cvars, current, stack, started, gvars>>

\* The stack with its top frame replaced.
SetTop(o, f) == [stack EXCEPT ![o] = Append(SubSeq(@, 1, Len(@) - 1), f)]

\* RunTask up to the choice of the wait: s.current = &s.tasks[0];
\* s.tasks = s.tasks[1:]; short or long wait.  `below` is the stack under
\* the frame of the caller (Wait or Gosched).
RunTaskPop(o, call, below) ==
    LET t == Head(tasks[o]) IN
    /\ tasks[o] # <<>>
    /\ current' = [current EXCEPT ![o] = t]
    /\ tasks' = [tasks EXCEPT ![o] = Tail(@)]
    /\ stack' = [stack EXCEPT ![o] =
            Append(below, Frame(call, IF IsShortWait(t) THEN "short" ELSE "long", t, 0))]

\* task.run() is invoked.
Invoke(o) ==
    /\ stack' = SetTop(o, [Top(o) EXCEPT !.pc = "run"])
    /\ started' = Append(started, Started(o, Top(o).task))
    /\ UNCHANGED <<tasks, current>>

\* A faulty end of RunTask: s.current is not cleared.
FinishKeepsCurrent(o) ==
    /\ current' = current
    /\ stack' = IF Top(o).call = "Wait"
                THEN SetTop(o, Frame("Wait", "loop", NoTask, 0))
                ELSE [stack EXCEPT ![o] = SubSeq(@, 1, Len(@) - 1)]
    /\ UNCHANGED <<tasks, started>>

\* RunTask after the wait: s.current = nil; return true.  Wait loops,
\* Gosched returns.
Finish(o) ==
    /\ current' = [current EXCEPT ![o] = NoTask]
    /\ stack' = IF Top(o).call = "Wait"
                THEN SetTop(o, Frame("Wait", "loop", NoTask, 0))
                ELSE [stack EXCEPT ![o] = SubSeq(@, 1, Len(@) - 1)]
    /\ UNCHANGED <<tasks, started>>

\* trampoline.Wait is called.
Wait(o) ==
    /\ Alive
    /\ CanCall(o)
    /\ Len(stack[o]) < MaxDepth
    /\ stack' = [stack EXCEPT ![o] = Append(@, Frame("Wait", "loop", NoTask, 0))]
    /\ UNCHANGED <<now, cvars, hvars, tasks, current, gvars>>

\* A faulty Wait: its loop also ends while entries are queued.
WaitDrainedEarly(o) ==
    /\ Alive
    /\ stack[o] # <<>>
    /\ Top(o).pc = "loop"
    /\ stack' = SetTop(o, Frame("Wait", "return", NoTask, 0))
    /\ UNCHANGED <<now, cvars, hvars, tasks, current, gvars>>

\* for s.RunTask() {}: RunTask found the queue empty and returned false,
\* the loop of Wait ends.
WaitDrained(o) ==
    /\ Alive
    /\ stack[o] # <<>>
    /\ Top(o).pc = "loop"
    /\ tasks[o] = <<>>
    /\ stack' = SetTop(o, Frame("Wait", "return", NoTask, 0))
    /\ UNCHANGED <<now, cvars, hvars, tasks, current, gvars>>

\* Wait returns to its caller.
WaitReturn(o) ==
    /\ Alive
    /\ stack[o] # <<>>
    /\ Top(o).pc = "return"
    /\ stack' = [stack EXCEPT ![o] = SubSeq(@, 1, Len(@) - 1)]
    /\ UNCHANGED <<now, cvars, hvars, tasks, current, gvars>>

\* trampoline.RunTask, called by the loop of Wait.
RunTask(o) ==
    /\ Alive
    /\ stack[o] # <<>>
    /\ Top(o).pc = "loop"
    /\ RunTaskPop(o, "Wait", SubSeq(stack[o], 1, Len(stack[o]) - 1))
    /\ UNCHANGED <<now, cvars, hvars, gvars>>

\* trampoline.Gosched, called by the owner (s.gid == Gid()) with a
\* non-empty queue: RunTask.
Gosched(o) ==
    /\ Alive
    /\ CanCall(o)
    /\ Len(stack[o]) < MaxDepth
    /\ RunTaskPop(o, "Gosched", stack[o])
    /\ UNCHANGED <<now, cvars, hvars, gvars>>

\* A faulty Gosched, without the test s.gid == Gid(): RunTask on o's
\* trampoline runs on the calling goroutine th.
GoschedUnchecked(th, o) ==
    LET t == Head(tasks[o]) IN
    /\ Alive
    /\ th # o
    /\ CanCall(th)
    /\ tasks[o] # <<>>
    /\ current' = [current EXCEPT ![o] = t]
    /\ tasks' = [tasks EXCEPT ![o] = Tail(@)]
    /\ stack' = [stack EXCEPT ![th] =
            Append(@, Frame("Gosched", IF IsShortWait(t) THEN "short" ELSE "long", t, 0))]
    /\ UNCHANGED <<now, cvars, hvars, gvars>>

\* trampoline.Gosched, called by a goroutine th that does not own o's
\* trampoline (s.gid # Gid()): runtime.Gosched() only.
GoschedForeign(th, o) ==
    /\ Alive
    /\ th # o
    /\ CanCall(th)
    /\ UNCHANGED vars

\* A faulty scheduler in which a task starts only while no task of another
\* owner is running, as if all trampolines shared one lock.
ShortWaitSerialized(o) ==
    /\ Alive
    /\ stack[o] # <<>>
    /\ Top(o).pc = "short"
    /\ \/ /\ Canceled(Top(o).task)
          /\ Finish(o)
       \/ /\ ~(now < Top(o).task.at)
          /\ ~Canceled(Top(o).task)
          /\ \A p \in Owners \ {o} : Depth(p) = 0
          /\ Invoke(o)
    /\ UNCHANGED <<now, cvars, nseq, iters, gvars>>

\* A faulty short wait: the entry runs without the wait for its due time.
ShortWaitNoSpin(o) ==
    /\ Alive
    /\ stack[o] # <<>>
    /\ Top(o).pc = "short"
    /\ \/ /\ Canceled(Top(o).task)
          /\ Finish(o)
       \/ /\ ~Canceled(Top(o).task)
          /\ Invoke(o)
    /\ UNCHANGED <<now, cvars, nseq, iters, gvars>>

\* A faulty short wait: leaving on cancellation it takes the head of the
\* queue away once more, as a loop that pops after the wait would.
ShortWaitDiscardPops(o) ==
    /\ Alive
    /\ stack[o] # <<>>
    /\ Top(o).pc = "short"
    /\ \/ /\ Canceled(Top(o).task)
          /\ current' = [current EXCEPT ![o] = NoTask]
          /\ stack' = IF Top(o).call = "Wait"
                      THEN SetTop(o, Frame("Wait", "loop", NoTask, 0))
                      ELSE [stack EXCEPT ![o] = SubSeq(@, 1, Len(@) - 1)]
          /\ tasks' = [tasks EXCEPT ![o] = IF @ = <<>> THEN @ ELSE Tail(@)]
          /\ UNCHANGED started
       \/ /\ ~(now < Top(o).task.at)
          /\ ~Canceled(Top(o).task)
          /\ Invoke(o)
    /\ UNCHANGED <<now, cvars, nseq, iters, gvars>>

\* trampoline.ShortWaitAndRun: spin while the due time is ahead, leave
\* when canceled, else run.
ShortWaitAndRun(o) ==
    /\ Alive
    /\ stack[o] # <<>>
    /\ Top(o).pc = "short"
    /\ \/ /\ Canceled(Top(o).task)
          /\ Finish(o)
       \/ /\ ~(now < Top(o).task.at)
          /\ ~Canceled(Top(o).task)
          /\ Invoke(o)
    /\ UNCHANGED <<now, cvars, nseq, iters, gvars>>

\* trampoline.LongWaitAndRun up to its select: due := time.Until(task.at);
\* the timer is armed when due > 0, else the entry runs unless canceled.
LongWaitAndRun(o) ==
    /\ Alive
    /\ stack[o] # <<>>
    /\ Top(o).pc = "long"
    /\ LET due == Top(o).task.at - now IN
       \/ /\ due > 0
          /\ stack' = SetTop(o, [Top(o) EXCEPT !.pc = "select", !.timer = now + due])
          /\ UNCHANGED <<tasks, current, started>>
       \/ /\ ~(due > 0)
          /\ Canceled(Top(o).task)
          /\ Finish(o)
       \/ /\ ~(due > 0)
          /\ ~Canceled(Top(o).task)
          /\ Invoke(o)
    /\ UNCHANGED <<now, cvars, nseq, iters, gvars>>

\* A faulty select of LongWaitAndRun: the timer channel is never ready.
LongWaitSelectNoTimer(o) ==
    /\ Alive
    /\ stack[o] # <<>>
    /\ Top(o).pc = "select"
    /\ Canceled(Top(o).task)
    /\ Finish(o)
    /\ UNCHANGED <<now, cvars, nseq, iters, gvars>>

\* The select of LongWaitAndRun: whichever of the cancel channel and the
\* timer channel is ready; when both are, either.
LongWaitSelect(o) ==
    /\ Alive
    /\ stack[o] # <<>>
    /\ Top(o).pc = "select"
    /\ \/ /\ Canceled(Top(o).task)
          /\ Finish(o)
       \/ /\ now >= Top(o).timer
          /\ Invoke(o)
    /\ UNCHANGED <<now, cvars, nseq, iters, gvars>>

\* The task returns to RunTask.
TaskReturn(o) ==
    /\ Alive
    /\ stack[o] # <<>>
    /\ Top(o).pc = "run"
    /\ Finish(o)
    /\ UNCHANGED <<now, cvars, nseq, iters, gvars>>

\* The owner of a serial scheduler and the tasks it runs.
NextTrampoline ==
    \/ Tick
    \/ \E c \in Chans : Cancel(c)
    \/ Schedule(Main)
    \/ \E d \in Dues : ScheduleFuture(Main, d)
    \/ ScheduleRecursive(Main)
    \/ \E d \in Dues : ScheduleFutureRecursive(Main, d)
    \/ \E c \in Chans : Again(Main, c)
    \/ \E c \in Chans, d \in Dues : AgainDue(Main, c, d)
    \/ Wait(Main)
    \/ WaitDrained(Main)
    \/ WaitReturn(Main)
    \/ RunTask(Main)
    \/ Gosched(Main)
    \/ \E th \in Units : GoschedForeign(th, Main)
    \/ ShortWaitAndRun(Main)
    \/ LongWaitAndRun(Main)
    \/ LongWaitSelect(Main)
    \/ TaskReturn(Main)

SpecTrampoline == Init /\ [][NextTrampoline]_vars

\* The same owner when no task calls Wait or Gosched: both are called from
\* outside the tasks only.
NextSerial ==
    \/ Tick
    \/ \E c \in Chans : Cancel(c)
    \/ Schedule(Main)
    \/ \E d \in Dues : ScheduleFuture(Main, d)
    \/ ScheduleRecursive(Main)
    \/ \E d \in Dues : ScheduleFutureRecursive(Main, d)
    \/ \E c \in Chans : Again(Main, c)
    \/ \E c \in Chans, d \in Dues : AgainDue(Main, c, d)
    \/ stack[Main] = <<>> /\ Wait(Main)
    \/ WaitDrained(Main)
    \/ WaitReturn(Main)
    \/ RunTask(Main)
    \/ stack[Main] = <<>> /\ Gosched(Main)
    \/ ShortWaitAndRun(Main)
    \/ LongWaitAndRun(Main)
    \/ LongWaitSelect(Main)
    \/ TaskReturn(Main)

SpecSerial == Init /\ [][NextSerial]_vars

\* -------------------------------------------------------------- the loop
\* The indices passed to ScheduleLoop and to its again closure.
Indices == 0..MaxIndex

\* A faulty ScheduleLoop: the first iteration is invoked by the call when
\* no drain is in progress, as the in-line trampoline does.
ScheduleLoopRuns(o, from) ==
    LET c == nchan + 1
        t == futuretask(nseq + 1, now, c, "loop", from) IN
    /\ Alive
    /\ CanCall(o)
    /\ nseq < Quota(o)
    /\ nchan' = c
    /\ nseq' = nseq + 1
    /\ iters' = [iters EXCEPT ![c] = 1]
    /\ known' = known \cup {c}
    /\ IF stack[o] = <<>>
       THEN /\ stack' = [stack EXCEPT ![o] = <<Frame("ScheduleLoop", "run", t, 0)>>]
            /\ current' = [current EXCEPT ![o] = t]
            /\ started' = Append(started, Started(o, t))
            /\ UNCHANGED tasks
       ELSE /\ tasks' = [tasks EXCEPT ![o] = Enqueue(@, t)]
            /\ UNCHANGED <<current, stack, started>>
    /\ UNCHANGED <<now, closed, early, panicked, gvars>>

\* trampoline.ScheduleLoop: again(from); return &t.  The entry is due at
\* once and carries the index `from` as its iteration.
ScheduleLoop(o, from) ==
    LET c == nchan + 1 IN
    /\ Alive
    /\ CanCall(o)
    /\ nseq < Quota(o)
    /\ tasks' = [tasks EXCEPT ![o] = Enqueue(@, futuretask(nseq + 1, now, c, "loop", from))]
    /\ nchan' = c
    /\ nseq' = nseq + 1
    /\ iters' = [iters EXCEPT ![c] = 1]
    /\ known' = known \cup {c}
    /\ UNCHANGED <<now, closed, early, panicked, current, stack, started, gvars>>

\* A faulty again(next) of ScheduleLoop: the queue holds the one task t by
\* reference, so that t.run = run(next) also replaces the index of the
\* entries of the loop that are still queued.
AgainLoopShared(o, c, next) ==
    /\ Alive
    /\ CanCall(o)
    /\ nseq < Quota(o)
    /\ \E i \in DOMAIN started :
          started[i].owner = o /\ started[i].cancel = c /\ started[i].kind = "loop"
    /\ LET q == [i \in 1..Len(tasks[o]) |->
                    IF tasks[o][i].cancel = c
                    THEN [tasks[o][i] EXCEPT !.iter = next]
                    ELSE tasks[o][i]] IN
       tasks' = [tasks EXCEPT ![o] = Enqueue(q, futuretask(nseq + 1, now, c, "loop", next))]
    /\ nseq' = nseq + 1
    /\ iters' = [iters EXCEPT ![c] = @ + 1]
    /\ UNCHANGED <<now, cvars, current, stack, started, gvars>>

\* again(next) of ScheduleLoop: t.at = time.Now(); t.run = run(next);
\* append; sort.Stable.  The closure exists once the task has been handed it.
AgainLoop(o, c, next) ==
    /\ Alive
    /\ CanCall(o)
    /\ nseq < Quota(o)
    /\ \E i \in DOMAIN started :
          started[i].owner = o /\ started[i].cancel = c /\ started[i].kind = "loop"
    /\ tasks' = [tasks EXCEPT ![o] = Enqueue(@, futuretask(nseq + 1, now, c, "loop", next))]
    /\ nseq' = nseq + 1
    /\ iters' = [iters EXCEPT ![c] = @ + 1]
    /\ UNCHANGED <<now, cvars, current, stack, started, gvars>>

\* The owner of a serial scheduler that also runs loops; no task calls
\* Wait or Gosched.
NextLoop ==
    \/ Tick
    \/ \E c \in Chans : Cancel(c)
    \/ Schedule(Main)
    \/ \E d \in Dues : ScheduleFuture(Main, d)
    \/ ScheduleRecursive(Main)
    \/ \E d \in Dues : ScheduleFutureRecursive(Main, d)
    \/ \E n \in Indices : ScheduleLoop(Main, n)
    \/ \E c \in Chans : Again(Main, c)
    \/ \E c \in Chans, d \in Dues : AgainDue(Main, c, d)
    \/ \E c \in Chans, n \in Indices : AgainLoop(Main, c, n)
    \/ stack[Main] = <<>> /\ Wait(Main)
    \/ WaitDrained(Main)
    \/ WaitReturn(Main)
    \/ RunTask(Main)
    \/ stack[Main] = <<>> /\ Gosched(Main)
    \/ ShortWaitAndRun(Main)
    \/ LongWaitAndRun(Main)
    \/ LongWaitSelect(Main)
    \/ TaskReturn(Main)

SpecLoop == Init /\ [][NextLoop]_vars

\* -------------------------------------------------------------- goroutine
\* One execution unit: the goroutine a dispatch call starts.  cancel is
\* the channel of its Runner, runner the content of the handoff channel
\* (0 when empty), returned whether the dispatch call has returned.
Unit(k, d, c, th) ==
    [kind |-> k, pc |-> "counted", due |-> d, cancel |-> c, timer |-> 0,
     runner |-> 0, caller |-> th, returned |-> FALSE]

IsRecursive(u) == unit[u].kind \in {"rec", "futrec"}

\* The thread is inside a dispatch call.
Busy(th) == \E u \in DOMAIN unit : unit[u].caller = th /\ ~unit[u].returned

\* The threads that call the concurrent scheduler: the main goroutine
\* outside Wait, and the tasks of Schedule / ScheduleFuture.
CanSubmit(th) ==
    /\ ~Busy(th)
    /\ IF th = Main THEN mainpc = "idle"
       ELSE th \in DOMAIN unit /\ unit[th].pc = "task" /\ ~IsRecursive(th)

\* The first statements of the four dispatch methods: make the channel,
\* atomic.AddInt32(&s.active, 1).
Dispatch(th, kind, due) ==
    /\ Alive
    /\ CanSubmit(th)
    /\ Len(unit) < MaxUnits
    /\ now + due <= MaxTime
    /\ active' = active + 1
    /\ IF kind \in {"plain", "future"}
       THEN /\ unit' = Append(unit, Unit(kind, due, nchan + 1, th))
            /\ nchan' = nchan + 1
       ELSE /\ unit' = Append(unit, Unit(kind, due, 0, th))
            /\ nchan' = nchan
    /\ UNCHANGED <<now, closed, early, panicked, known, hvars, tvars, wg, mainpc>>

\* s.concurrent.Add(1); go func() {...}(); Schedule and ScheduleFuture
\* return the Runner.
Spawn(u) ==
    /\ Alive
    /\ u \in DOMAIN unit
    /\ unit[u].pc = "counted"
    /\ wg' = wg + 1
    /\ IF IsRecursive(u)
       THEN /\ unit' = [unit EXCEPT ![u].pc = "spawned"]
            /\ known' = known
       ELSE /\ unit' = [unit EXCEPT ![u].pc = "spawned", ![u].returned = TRUE]
            /\ known' = known \cup {unit[u].cancel}
    /\ UNCHANGED <<now, closed, early, panicked, nchan, hvars, tvars, active, mainpc>>

\* A faulty handoff: the unit sends the Runner only after trampoline.Wait()
\* has returned, the dispatch call returns when the chain has ended.
ReceiveAfterWait(u) ==
    /\ Alive
    /\ u \in DOMAIN unit
    /\ ~unit[u].returned
    /\ unit[u].runner # 0
    /\ stack[u] = <<>>
    /\ unit' = [unit EXCEPT ![u].returned = TRUE]
    /\ known' = known \cup {unit[u].runner}
    /\ UNCHANGED <<now, closed, early, panicked, nchan, hvars, tvars, active, wg, mainpc>>

\* return <-runner: the dispatch call of a recursive submission returns
\* the Runner the unit handed over.
Receive(u) ==
    /\ Alive
    /\ u \in DOMAIN unit
    /\ ~unit[u].returned
    /\ unit[u].runner # 0
    /\ unit' = [unit EXCEPT ![u].returned = TRUE]
    /\ known' = known \cup {unit[u].runner}
    /\ UNCHANGED <<now, closed, early, panicked, nchan, hvars, tvars, active, wg, mainpc>>

\* The task of a Schedule / ScheduleFuture unit is invoked.
RunUnit(u) ==
    /\ unit' = [unit EXCEPT ![u].pc = "task"]
    /\ started' = Append(started,
            Started(u, futuretask(0 - u, unit[u].timer, unit[u].cancel, unit[u].kind, 0)))

\* The goroutine of Schedule: select { case <-cancel: default: task() }.
GoSchedule(u) ==
    /\ Alive
    /\ u \in DOMAIN unit
    /\ unit[u].kind = "plain"
    /\ unit[u].pc = "spawned"
    /\ IF unit[u].cancel \in closed
       THEN unit' = [unit EXCEPT ![u].pc = "done"] /\ UNCHANGED started
       ELSE RunUnit(u)
    /\ UNCHANGED <<now, cvars, nseq, iters, tvars, active, wg, mainpc>>

\* A faulty goroutine of ScheduleFuture: the timer is armed whatever the
\* delay is.
GoScheduleFutureArms(u) ==
    /\ Alive
    /\ u \in DOMAIN unit
    /\ unit[u].kind = "future"
    /\ unit[u].pc = "spawned"
    /\ unit' = [unit EXCEPT ![u].pc = "select", ![u].timer = now + unit[u].due]
    /\ UNCHANGED started
    /\ UNCHANGED <<now, cvars, nseq, iters, tvars, active, wg, mainpc>>

\* The goroutine of ScheduleFuture up to its select: the timer is armed
\* when due > 0, else the task runs unless canceled.
GoScheduleFuture(u) ==
    /\ Alive
    /\ u \in DOMAIN unit
    /\ unit[u].kind = "future"
    /\ unit[u].pc = "spawned"
    /\ IF unit[u].due > 0
       THEN /\ unit' = [unit EXCEPT ![u].pc = "select", ![u].timer = now + unit[u].due]
            /\ UNCHANGED started
       ELSE IF unit[u].cancel \in closed
       THEN unit' = [unit EXCEPT ![u].pc = "done"] /\ UNCHANGED started
       ELSE RunUnit(u)
    /\ UNCHANGED <<now, cvars, nseq, iters, tvars, active, wg, mainpc>>

\* A faulty select of goroutine.ScheduleFuture: the cancel channel is not
\* among its cases, the unit waits for its timer.
GoFutureSelectTimerOnly(u) ==
    /\ Alive
    /\ u \in DOMAIN unit
    /\ unit[u].pc = "select"
    /\ now >= unit[u].timer
    /\ IF unit[u].cancel \in closed
       THEN unit' = [unit EXCEPT ![u].pc = "done"] /\ UNCHANGED started
       ELSE RunUnit(u)
    /\ UNCHANGED <<now, cvars, nseq, iters, tvars, active, wg, mainpc>>

\* select { case <-cancel: due.Stop(); case <-due.C: task() }: whichever
\* is ready; when both are, either.
GoFutureSelect(u) ==
    /\ Alive
    /\ u \in DOMAIN unit
    /\ unit[u].pc = "select"
    /\ \/ /\ unit[u].cancel \in closed
          /\ unit' = [unit EXCEPT ![u].pc = "done"]
          /\ UNCHANGED started
       \/ /\ now >= unit[u].timer
          /\ RunUnit(u)
    /\ UNCHANGED <<now, cvars, nseq, iters, tvars, active, wg, mainpc>>

\* The task of a Schedule / ScheduleFuture unit returns.
GoTaskReturn(u) ==
    /\ Alive
    /\ u \in DOMAIN unit
    /\ unit[u].pc = "task"
    /\ ~Busy(u)
    /\ unit' = [unit EXCEPT ![u].pc = "done"]
    /\ UNCHANGED <<now, cvars, hvars, tvars, active, wg, mainpc>>

\* The goroutine of ScheduleRecursive / ScheduleFutureRecursive:
\* trampoline := MakeTrampoline(); runner <- trampoline.Schedule...(task);
\* trampoline.Wait() is entered.
GoScheduleRecursive(u) ==
    /\ Alive
    /\ u \in DOMAIN unit
    /\ IsRecursive(u)
    /\ unit[u].pc = "spawned"
    /\ Submit(u, IF unit[u].kind = "rec" THEN 0 ELSE unit[u].due, unit[u].kind)
    /\ unit' = [unit EXCEPT ![u].pc = "trampoline", ![u].runner = nchan']
    /\ stack' = [stack EXCEPT ![u] = <<Frame("Wait", "loop", NoTask, 0)>>]
    /\ UNCHANGED <<now, closed, early, panicked, known, current, started,
                   active, wg, mainpc>>

\* The goroutine's function has returned (trampoline.Wait() returned, the
\* task returned or was skipped).
Returned(u) ==
    \/ unit[u].pc = "done"
    \/ unit[u].pc = "trampoline" /\ stack[u] = <<>>

\* defer s.concurrent.Done(): the deferred call that runs first.
Done(u) ==
    /\ Alive
    /\ u \in DOMAIN unit
    /\ Returned(u)
    /\ wg' = wg - 1
    /\ unit' = [unit EXCEPT ![u].pc = "exit"]
    /\ UNCHANGED <<now, cvars, hvars, tvars, active, mainpc>>

\* A faulty exit: the cancellation path decrements the counter as well as
\* the deferred call.
ExitTwice(u) ==
    /\ Alive
    /\ u \in DOMAIN unit
    /\ unit[u].pc = "exit"
    /\ active' = active - (IF unit[u].cancel \in closed THEN 2 ELSE 1)
    /\ unit' = [unit EXCEPT ![u].pc = "exited"]
    /\ UNCHANGED <<now, cvars, hvars, tvars, wg, mainpc>>

\* defer atomic.AddInt32(&s.active, -1): the deferred call that runs last;
\* the goroutine ends.
Exit(u) ==
    /\ Alive
    /\ u \in DOMAIN unit
    /\ unit[u].pc = "exit"
    /\ active' = active - 1
    /\ unit' = [unit EXCEPT ![u].pc = "exited"]
    /\ UNCHANGED <<now, cvars, hvars, tvars, wg, mainpc>>

\* goroutine.Wait is called by the main goroutine: s.concurrent.Wait().
GoWait ==
    /\ Alive
    /\ mainpc = "idle"
    /\ ~Busy(Main)
    /\ mainpc' = "wait"
    /\ UNCHANGED <<now, cvars, hvars, tvars, active, wg, unit>>

\* s.concurrent.Wait() returns: the WaitGroup counter is zero.  The main
\* goroutine then reads the count (goroutine.String).
GoWaitReturn ==
    /\ Alive
    /\ mainpc = "wait"
    /\ wg = 0
    /\ mainpc' = "waited"
    /\ UNCHANGED <<now, cvars, hvars, tvars, active, wg, unit>>

\* The task of a chain is running: it is in a frame of the unit's private
\* trampoline.
InChain(u) == u \in DOMAIN unit /\ stack[u] # <<>>

\* The users of the concurrent scheduler, its execution units and their
\* private trampolines.
NextGoroutine ==
    \/ Tick
    \/ \E c \in Chans : Cancel(c)
    \/ \E th \in Owners : Dispatch(th, "plain", 0)
    \/ \E th \in Owners, d \in GoDues : Dispatch(th, "future", d)
    \/ \E th \in Owners : Dispatch(th, "rec", 0)
    \/ \E th \in Owners, d \in GoDues : Dispatch(th, "futrec", d)
    \/ \E u \in Units : Spawn(u)
    \/ \E u \in Units : Receive(u)
    \/ \E u \in Units : GoSchedule(u)
    \/ \E u \in Units : GoScheduleFuture(u)
    \/ \E u \in Units : GoFutureSelect(u)
    \/ \E u \in Units : GoTaskReturn(u)
    \/ \E u \in Units : GoScheduleRecursive(u)
    \/ \E u \in Units : InChain(u) /\ RunTask(u)
    \/ \E u \in Units : InChain(u) /\ ShortWaitAndRun(u)
    \/ \E u \in Units : InChain(u) /\ LongWaitAndRun(u)
    \/ \E u \in Units : InChain(u) /\ LongWaitSelect(u)
    \/ \E u \in Units : InChain(u) /\ Again(u, unit[u].runner)
    \/ \E u \in Units, d \in Dues : InChain(u) /\ AgainDue(u, unit[u].runner, d)
    \/ \E u \in Units : InChain(u) /\ TaskReturn(u)
    \/ \E u \in Units : InChain(u) /\ WaitDrained(u)
    \/ \E u \in Units : InChain(u) /\ WaitReturn(u)
    \/ \E u \in Units : Done(u)
    \/ \E u \in Units : Exit(u)
    \/ GoWait
    \/ GoWaitReturn

SpecGoroutine == Init /\ [][NextGoroutine]_vars

\* ------------------------------------------------------------ termination
\* The owner of a serial scheduler when no Runner is canceled.
NextUncanceled ==
    \/ Tick
    \/ Schedule(Main)
    \/ \E d \in Dues : ScheduleFuture(Main, d)
    \/ ScheduleRecursive(Main)
    \/ \E d \in Dues : ScheduleFutureRecursive(Main, d)
    \/ \E c \in Chans : Again(Main, c)
    \/ \E c \in Chans, d \in Dues : AgainDue(Main, c, d)
    \/ Wait(Main)
    \/ WaitDrained(Main)
    \/ WaitReturn(Main)
    \/ RunTask(Main)
    \/ Gosched(Main)
    \/ ShortWaitAndRun(Main)
    \/ LongWaitAndRun(Main)
    \/ LongWaitSelect(Main)
    \/ TaskReturn(Main)

\* The clock advances, the owning goroutine keeps running and every task
\* returns, however often it calls the scheduler before it does; whether
\* and when the owner submits, calls Wait or calls Gosched is left open.
Progress ==
    /\ WF_vars(Tick)
    /\ WF_vars(WaitDrained(Main))
    /\ WF_vars(WaitReturn(Main))
    /\ WF_vars(RunTask(Main))
    /\ WF_vars(ShortWaitAndRun(Main))
    /\ WF_vars(LongWaitAndRun(Main))
    /\ WF_vars(LongWaitSelect(Main))
    /\ SF_vars(TaskReturn(Main))

SpecUncanceled == Init /\ [][NextUncanceled]_vars /\ Progress

\* ------------------------------------------------------- past due times
\* The delays of a submission whose due time has already passed.
PastDues == {0 - 1, 0}

\* trampoline.ScheduleFuture with due <= 0; the entry is marked "past".
SchedulePast(o, due) ==
    /\ Alive
    /\ CanCall(o)
    /\ due <= 0
    /\ Submit(o, due, "past")
    /\ known' = known \cup {nchan'}
    /\ UNCHANGED <<now, closed, early, panicked, current, stack, started, gvars>>

\* One goroutine that submits future tasks, past due ones among them,
\* either to a serial scheduler it owns or to the concurrent scheduler.
NextPast ==
    \/ Tick
    \/ \E c \in Chans : Cancel(c)
    \/ \E d \in PastDues : unit = <<>> /\ SchedulePast(Main, d)
    \/ \E d \in Dues \ {0} : unit = <<>> /\ ScheduleFuture(Main, d)
    \/ stack[Main] = <<>> /\ Wait(Main)
    \/ WaitDrained(Main)
    \/ WaitReturn(Main)
    \/ RunTask(Main)
    \/ ShortWaitAndRun(Main)
    \/ LongWaitAndRun(Main)
    \/ LongWaitSelect(Main)
    \/ TaskReturn(Main)
    \/ \E d \in PastDues \cup {MaxDue} : nseq = 0 /\ Dispatch(Main, "future", d)
    \/ \E u \in Units : Spawn(u)
    \/ \E u \in Units : GoScheduleFuture(u)
    \/ \E u \in Units : GoFutureSelect(u)
    \/ \E u \in Units : GoTaskReturn(u)
    \/ \E u \in Units : Done(u)
    \/ \E u \in Units : Exit(u)

SpecPast == Init /\ [][NextPast]_vars

\* --------------------------------------------------------- canceled waits
\* One goroutine that submits delayed tasks either to a serial scheduler it
\* owns or to the concurrent scheduler, waits for them, and cancels a
\* Runner at most once.
NextCanceledWait ==
    \/ Tick
    \/ \E c \in Chans : c \notin closed /\ Cancel(c)
    \/ \E d \in Dues : unit = <<>> /\ ScheduleFuture(Main, d)
    \/ stack[Main] = <<>> /\ Wait(Main)
    \/ WaitDrained(Main)
    \/ WaitReturn(Main)
    \/ RunTask(Main)
    \/ ShortWaitAndRun(Main)
    \/ LongWaitAndRun(Main)
    \/ LongWaitSelect(Main)
    \/ TaskReturn(Main)
    \/ \E d \in GoDues : nseq = 0 /\ Dispatch(Main, "future", d)
    \/ \E u \in Units : Spawn(u)
    \/ \E u \in Units : GoScheduleFuture(u)
    \/ \E u \in Units : GoFutureSelect(u)
    \/ \E u \in Units : GoTaskReturn(u)
    \/ \E u \in Units : Done(u)
    \/ \E u \in Units : Exit(u)
    \/ GoWait
    \/ GoWaitReturn

\* Every goroutine keeps running; nothing is assumed about the clock,
\* which may stand still for ever.
Running ==
    /\ WF_vars(WaitDrained(Main))
    /\ WF_vars(WaitReturn(Main))
    /\ WF_vars(RunTask(Main))
    /\ WF_vars(ShortWaitAndRun(Main))
    /\ WF_vars(LongWaitAndRun(Main))
    /\ WF_vars(LongWaitSelect(Main))
    /\ WF_vars(TaskReturn(Main))
    /\ WF_vars(GoWaitReturn)
    /\ \A u \in Units :
          /\ WF_vars(Spawn(u))
          /\ WF_vars(GoScheduleFuture(u))
          /\ WF_vars(GoFutureSelect(u))
          /\ WF_vars(GoTaskReturn(u))
          /\ WF_vars(Done(u))
          /\ WF_vars(Exit(u))

SpecCanceledWait == Init /\ [][NextCanceledWait]_vars /\ Running

\* ---------------------------------------------------------------- handoff
\* The recursive units that have not yet made their first submission.
PendingHandoff ==
    {u \in DOMAIN unit : IsRecursive(u) /\ unit[u].pc \in {"counted", "spawned"}}

\* An entry may be created without taking the place in the bound MaxChain
\* that a unit needs for its first submission.
Room == nseq + Cardinality(PendingHandoff) < MaxChain

\* The clock may advance without moving the due time of a first submission
\* that is still to be made beyond the bound MaxTime.
InWindow ==
    \A u \in PendingHandoff :
        now + 1 + (IF unit[u].kind = "rec" THEN 0 ELSE unit[u].due) <= MaxTime

\* The callers of the recursive dispatch methods of the concurrent
\* scheduler, among them tasks of Schedule, and the units they start; a
\* Runner is canceled at most once.
NextHandoff ==
    \/ InWindow /\ Tick
    \/ \E c \in Chans : c \notin closed /\ Cancel(c)
    \/ \E th \in Owners : Dispatch(th, "plain", 0)
    \/ \E th \in Owners : Room /\ Dispatch(th, "rec", 0)
    \/ \E th \in Owners, d \in GoDues : Room /\ Dispatch(th, "futrec", d)
    \/ \E u \in Units : Spawn(u)
    \/ \E u \in Units : Receive(u)
    \/ \E u \in Units : GoSchedule(u)
    \/ \E u \in Units : GoTaskReturn(u)
    \/ \E u \in Units : GoScheduleRecursive(u)
    \/ \E u \in Units : InChain(u) /\ RunTask(u)
    \/ \E u \in Units : InChain(u) /\ ShortWaitAndRun(u)
    \/ \E u \in Units : InChain(u) /\ LongWaitAndRun(u)
    \/ \E u \in Units : InChain(u) /\ LongWaitSelect(u)
    \/ \E u \in Units : InChain(u) /\ Room /\ Again(u, unit[u].runner)
    \/ \E u \in Units, d \in Dues : InChain(u) /\ Room /\ AgainDue(u, unit[u].runner, d)
    \/ \E u \in Units : InChain(u) /\ TaskReturn(u)
    \/ \E u \in Units : InChain(u) /\ WaitDrained(u)
    \/ \E u \in Units : InChain(u) /\ WaitReturn(u)
    \/ \E u \in Units : Done(u)
    \/ \E u \in Units : Exit(u)

\* The dispatch call and the first statements of the goroutine it starts
\* keep running; nothing is assumed about the clock, the tasks or the
\* drain of the private trampoline.
HandoffRuns ==
    \A u \in Units :
        /\ WF_vars(Spawn(u))
        /\ WF_vars(GoScheduleRecursive(u))
        /\ WF_vars(Receive(u))

SpecHandoff == Init /\ [][NextHandoff]_vars /\ HandoffRuns

\* -------------------------------------------------------------- immediate
\* The Immediate scheduler keeps no state: a call is a frame on the
\* caller's stack, asleep in time.Sleep(due) or inside the task body.
\* `call` names the method, `kind` and `iter` the task it was handed.
\* A faulty call: the task is put on a queue and the call returns.
ImmediateCallDeferred(o, call, due, kind, iter) ==
    /\ Alive
    /\ CanCall(o)
    /\ nseq < MaxTasks
    /\ now + due <= MaxTime
    /\ nseq' = nseq + 1
    /\ tasks' = [tasks EXCEPT ![o] = Enqueue(@, futuretask(nseq + 1, now + due, 0, kind, iter))]
    /\ UNCHANGED <<now, cvars, iters, current, stack, started, gvars>>

\* time.Sleep(due); task(): the body of the four scheduling methods of
\* immediate.  Schedule and ScheduleRecursive do not sleep.
ImmediateCall(o, call, due, kind, iter) ==
    LET t == futuretask(nseq + 1, now + due, 0, kind, iter) IN
    /\ Alive
    /\ CanCall(o)
    /\ nseq < MaxTasks
    /\ now + due <= MaxTime
    /\ nseq' = nseq + 1
    /\ IF due > 0
       THEN /\ stack' = [stack EXCEPT ![o] = Append(@, Frame(call, "sleep", t, now + due))]
            /\ UNCHANGED started
       ELSE /\ stack' = [stack EXCEPT ![o] = Append(@, Frame(call, "run", t, 0))]
            /\ started' = Append(started, Started(o, t))
    /\ UNCHANGED <<now, cvars, iters, tasks, current, gvars>>

\* immediate.Schedule
ImmediateSchedule(o) == ImmediateCall(o, "Schedule", 0, "plain", 0)

\* immediate.ScheduleFuture
ImmediateScheduleFuture(o, due) == ImmediateCall(o, "ScheduleFuture", due, "plain", 0)

\* immediate.ScheduleRecursive
ImmediateScheduleRecursive(o) == ImmediateCall(o, "ScheduleRecursive", 0, "rec", 0)

\* immediate.ScheduleFutureRecursive
ImmediateScheduleFutureRecursive(o, due) ==
    ImmediateCall(o, "ScheduleFutureRecursive", due, "futrec", 0)

\* A faulty self closure: the next iteration takes the place of the running
\* one instead of being called by it, as a loop would run it.
ImmediateSelfLoops(o) ==
    LET t == futuretask(nseq + 1, now, 0, "rec", Top(o).task.iter + 1) IN
    /\ stack[o] # <<>>
    /\ Top(o).task.kind = "rec"
    /\ Alive
    /\ CanCall(o)
    /\ nseq < MaxTasks
    /\ nseq' = nseq + 1
    /\ stack' = SetTop(o, Frame("ScheduleRecursive", "run", t, 0))
    /\ started' = Append(started, Started(o, t))
    /\ UNCHANGED <<now, cvars, iters, tasks, current, gvars>>

\* The closure handed to a recursive task: s.ScheduleRecursive(task),
\* called by the task while it runs.
ImmediateSelf(o) ==
    /\ stack[o] # <<>>
    /\ Top(o).task.kind = "rec"
    /\ ImmediateCall(o, "ScheduleRecursive", 0, "rec", Top(o).task.iter + 1)

\* The closure handed to a future recursive task:
\* s.ScheduleFutureRecursive(due, task).
ImmediateSelfDue(o, due) ==
    /\ stack[o] # <<>>
    /\ Top(o).task.kind = "futrec"
    /\ ImmediateCall(o, "ScheduleFutureRecursive", due, "futrec", Top(o).task.iter + 1)

\* time.Sleep(due) returns and the task is invoked.
ImmediateSleep(o) ==
    /\ Alive
    /\ stack[o] # <<>>
    /\ Top(o).pc = "sleep"
    /\ Top(o).timer <= now
    /\ Invoke(o)
    /\ UNCHANGED <<now, cvars, nseq, iters, gvars>>

\* The task returns, and with it the call that ran it.
ImmediateReturn(o) ==
    /\ Alive
    /\ stack[o] # <<>>
    /\ Top(o).pc = "run"
    /\ stack' = [stack EXCEPT ![o] = SubSeq(@, 1, Len(@) - 1)]
    /\ UNCHANGED <<now, cvars, hvars, tasks, current, gvars>>

\* immediate.Cancel: the empty body.
ImmediateCancel(o) ==
    /\ Alive
    /\ CanCall(o)
    /\ UNCHANGED vars

\* immediate.Wait of the earlier variant: the empty body.
ImmediateWait(o) ==
    /\ Alive
    /\ CanCall(o)
    /\ UNCHANGED vars

\* A goroutine that uses the Immediate scheduler, and the tasks it runs.
NextImmediate ==
    \/ Tick
    \/ ImmediateSchedule(Main)
    \/ \E d \in Dues : ImmediateScheduleFuture(Main, d)
    \/ ImmediateScheduleRecursive(Main)
    \/ \E d \in Dues : ImmediateScheduleFutureRecursive(Main, d)
    \/ ImmediateSelf(Main)
    \/ \E d \in Dues : ImmediateSelfDue(Main, d)
    \/ ImmediateSleep(Main)
    \/ ImmediateReturn(Main)
    \/ ImmediateCancel(Main)
    \/ ImmediateWait(Main)

SpecImmediate == Init /\ [][NextImmediate]_vars

\* ---------------------------------------------- trampoline, in-line drain
\* The earlier trampoline (scheduler.go): the call that makes the queue
\* non-empty drains it.  Its frame on the caller's stack is at the head of
\* the loop ("drain"), blocked on s.cancel with the timer armed ("wait") or
\* inside task.run() ("run"); the entry being run stays at s.tasks[0].
\* trampoline.cancel, the one channel of the scheduler.
SchedulerCancel == 0

\* A faulty ScheduleFuture: the drain loop is entered although the queue
\* already held entries.
InlineEnqueueDrains(o, due, kind, iter) ==
    /\ Alive
    /\ CanCall(o)
    /\ nseq < MaxTasks
    /\ now + due <= MaxTime
    /\ nseq' = nseq + 1
    /\ tasks' = [tasks EXCEPT ![o] =
            Enqueue(@, futuretask(nseq + 1, now + due, SchedulerCancel, kind, iter))]
    /\ stack' = [stack EXCEPT ![o] = Append(@, Frame("ScheduleFuture", "drain", NoTask, 0))]
    /\ UNCHANGED <<now, cvars, iters, current, started, gvars>>

\* ScheduleFuture up to the loop: append, sort.Stable, and the drain loop
\* when len(s.tasks) == 1.
InlineEnqueue(o, due, kind, iter) ==
    /\ Alive
    /\ CanCall(o)
    /\ nseq < MaxTasks
    /\ now + due <= MaxTime
    /\ nseq' = nseq + 1
    /\ tasks' = [tasks EXCEPT ![o] =
            Enqueue(@, futuretask(nseq + 1, now + due, SchedulerCancel, kind, iter))]
    /\ stack' = IF Len(tasks'[o]) = 1
                THEN [stack EXCEPT ![o] = Append(@, Frame("ScheduleFuture", "drain", NoTask, 0))]
                ELSE stack
    /\ UNCHANGED <<now, cvars, iters, current, started, gvars>>

\* trampoline.Schedule of the in-line variant
InlineSchedule(o) == InlineEnqueue(o, 0, "plain", 0)

\* trampoline.ScheduleFuture of the in-line variant
InlineScheduleFuture(o, due) == InlineEnqueue(o, due, "plain", 0)

\* trampoline.ScheduleRecursive of the in-line variant
InlineScheduleRecursive(o) == InlineEnqueue(o, 0, "rec", 0)

\* trampoline.ScheduleFutureRecursive of the in-line variant
InlineScheduleFutureRecursive(o, due) == InlineEnqueue(o, due, "futrec", 0)

\* self() of ScheduleRecursive, called by the task while it runs.
InlineSelf(o) ==
    /\ stack[o] # <<>>
    /\ Top(o).task.kind = "rec"
    /\ InlineEnqueue(o, 0, "rec", Top(o).task.iter + 1)

\* self(due) of ScheduleFutureRecursive.
InlineSelfDue(o, due) ==
    /\ stack[o] # <<>>
    /\ Top(o).task.kind = "futrec"
    /\ InlineEnqueue(o, due, "futrec", Top(o).task.iter + 1)

\* ScheduleFuture returns; a canceled drain leaves s.tasks = nil.
InlineReturn(o, canceled) ==
    /\ stack' = [stack EXCEPT ![o] = SubSeq(@, 1, Len(@) - 1)]
    /\ tasks' = IF canceled THEN [tasks EXCEPT ![o] = <<>>] ELSE tasks
    /\ UNCHANGED started

\* One turn of the drain loop up to the wait: the loop ends on an empty
\* queue, returns when s.cancel is closed, and else takes s.tasks[0] and runs
\* it or arms the timer for it.
InlineDrain(o) ==
    /\ Alive
    /\ stack[o] # <<>>
    /\ Top(o).pc = "drain"
    /\ IF tasks[o] = <<>>
       THEN InlineReturn(o, FALSE)
       ELSE IF SchedulerCancel \in closed
       THEN InlineReturn(o, TRUE)
       ELSE LET t == Head(tasks[o]) IN
            IF now < t.at
            THEN /\ stack' = SetTop(o, Frame("ScheduleFuture", "wait", t, t.at))
                 /\ UNCHANGED <<tasks, started>>
            ELSE /\ stack' = SetTop(o, Frame("ScheduleFuture", "run", t, 0))
                 /\ started' = Append(started, Started(o, t))
                 /\ UNCHANGED tasks
    /\ UNCHANGED <<now, cvars, nseq, iters, current, gvars>>

\* <-s.cancel in the wait: the value the timer sent, and task.run(); or the
\* close, and the canceled return.  A timer that fires after the close sends
\* on the closed channel, which panics; timer.Stop() prevents it only when
\* the timer has not fired.
InlineWait(o) ==
    /\ Alive
    /\ stack[o] # <<>>
    /\ Top(o).pc = "wait"
    /\ \/ /\ SchedulerCancel \notin closed
          /\ Top(o).timer <= now
          /\ Invoke(o)
          /\ UNCHANGED panicked
       \/ /\ SchedulerCancel \in closed
          /\ InlineReturn(o, TRUE)
          /\ UNCHANGED panicked
       \/ /\ SchedulerCancel \in closed
          /\ Top(o).timer <= now
          /\ panicked' = TRUE
          /\ UNCHANGED <<tasks, stack, started>>
    /\ UNCHANGED <<now, closed, early, nchan, known, nseq, iters, current, gvars>>

\* task.run() returns: s.tasks = s.tasks[1:], and the loop goes on.
InlineTaskReturn(o) ==
    /\ Alive
    /\ stack[o] # <<>>
    /\ Top(o).pc = "run"
    /\ tasks' = [tasks EXCEPT ![o] = Tail(@)]
    /\ stack' = SetTop(o, Frame("ScheduleFuture", "drain", NoTask, 0))
    /\ UNCHANGED <<now, cvars, hvars, current, gvars>>

\* trampoline.Cancel of the in-line variant: close(s.cancel), by a running
\* task or by another goroutine.  Closing a closed channel panics.
InlineCancel ==
    /\ Alive
    /\ IF SchedulerCancel \in closed
       THEN panicked' = TRUE /\ UNCHANGED closed
       ELSE closed' = closed \cup {SchedulerCancel} /\ UNCHANGED panicked
    /\ UNCHANGED <<now, early, nchan, known, hvars, tvars, gvars>>

\* The goroutine that uses the in-line trampoline, and the tasks it runs.
NextInline ==
    \/ Tick
    \/ InlineCancel
    \/ InlineSchedule(Main)
    \/ \E d \in Dues : InlineScheduleFuture(Main, d)
    \/ InlineScheduleRecursive(Main)
    \/ \E d \in Dues : InlineScheduleFutureRecursive(Main, d)
    \/ InlineSelf(Main)
    \/ \E d \in Dues : InlineSelfDue(Main, d)
    \/ InlineDrain(Main)
    \/ InlineWait(Main)
    \/ InlineTaskReturn(Main)

SpecInline == Init /\ [][NextInline]_vars

\* The in-line trampoline when Cancel() is called at most once, by a
\* running task or by another goroutine (the channel-based Trampoline of
\* part_004 has the same ScheduleFuture and Cancel).
NextInlineOnce ==
    \/ Tick
    \/ SchedulerCancel \notin closed /\ InlineCancel
    \/ InlineSchedule(Main)
    \/ \E d \in Dues : InlineScheduleFuture(Main, d)
    \/ InlineScheduleRecursive(Main)
    \/ \E d \in Dues : InlineScheduleFutureRecursive(Main, d)
    \/ InlineSelf(Main)
    \/ \E d \in Dues : InlineSelfDue(Main, d)
    \/ InlineDrain(Main)
    \/ InlineWait(Main)
    \/ InlineTaskReturn(Main)

SpecInlineOnce == Init /\ [][NextInlineOnce]_vars

\* No scheduling call is in progress and nothing is queued.
InlineIdle(o) == stack[o] = <<>> /\ tasks[o] = <<>>

\* The in-line trampoline when Cancel() is called at most once and only
\* while the trampoline is empty.
NextInlineIdle ==
    \/ Tick
    \/ InlineIdle(Main) /\ SchedulerCancel \notin closed /\ InlineCancel
    \/ InlineSchedule(Main)
    \/ \E d \in Dues : InlineScheduleFuture(Main, d)
    \/ InlineScheduleRecursive(Main)
    \/ \E d \in Dues : InlineScheduleFutureRecursive(Main, d)
    \/ InlineSelf(Main)
    \/ \E d \in Dues : InlineSelfDue(Main, d)
    \/ InlineDrain(Main)
    \/ InlineWait(Main)
    \/ InlineTaskReturn(Main)

SpecInlineIdle == Init /\ [][NextInlineIdle]_vars

\* ------------------------------------------- Trampoline, queue-clearing
\* The Trampoline whose Cancel sets the task list to nil.  Its scheduling
\* methods are those of the in-line drain up to the loop (append,
\* sort.Stable, drain when len(s.tasks) == 1); the loop sleeps until the
\* due time of s.tasks[0] and has no cancel channel.

\* One turn of the loop up to the sleep: for len(s.tasks) > 0 {
\* task := s.tasks[0]; time.Sleep when the due time is ahead, else
\* task.run().  The frame keeps the copy `task`.
ClearingDrain(o) ==
    /\ Alive
    /\ stack[o] # <<>>
    /\ Top(o).pc = "drain"
    /\ IF tasks[o] = <<>>
       THEN /\ stack' = [stack EXCEPT ![o] = SubSeq(@, 1, Len(@) - 1)]
            /\ UNCHANGED started
       ELSE LET t == Head(tasks[o]) IN
            IF now < t.at
            THEN /\ stack' = SetTop(o, Frame("ScheduleFuture", "sleep", t, t.at))
                 /\ UNCHANGED started
            ELSE /\ stack' = SetTop(o, Frame("ScheduleFuture", "run", t, 0))
                 /\ started' = Append(started, Started(o, t))
    /\ UNCHANGED <<now, cvars, nseq, iters, tasks, current, gvars>>

\* time.Sleep(task.at.Sub(now)) returns; task.run().
ClearingSleep(o) ==
    /\ Alive
    /\ stack[o] # <<>>
    /\ Top(o).pc = "sleep"
    /\ Top(o).timer <= now
    /\ Invoke(o)
    /\ UNCHANGED <<now, cvars, nseq, iters, gvars>>

\* task.run() returns: s.tasks = s.tasks[1:], which panics (slice bounds
\* out of range) on an empty or nil list, and the loop goes on.
ClearingTaskReturn(o) ==
    /\ Alive
    /\ stack[o] # <<>>
    /\ Top(o).pc = "run"
    /\ IF tasks[o] = <<>>
       THEN /\ panicked' = TRUE
            /\ UNCHANGED <<tasks, stack>>
       ELSE /\ tasks' = [tasks EXCEPT ![o] = Tail(@)]
            /\ stack' = SetTop(o, Frame("ScheduleFuture", "drain", NoTask, 0))
            /\ UNCHANGED panicked
    /\ UNCHANGED <<now, closed, early, nchan, known, hvars, current, gvars>>

\* Trampoline.Cancel, called by the owning goroutine, from a running task
\* or between its calls: s.tasks = nil.
ClearingCancel(o) ==
    /\ Alive
    /\ CanCall(o)
    /\ tasks' = [tasks EXCEPT ![o] = <<>>]
    /\ UNCHANGED <<now, cvars, hvars, current, stack, gvars>>

\* Trampoline.Cancel, called by another goroutine while the owner is in
\* time.Sleep.  The write races with the owner's reads of s.tasks: the
\* owner comes to see the nil list or keeps seeing the old one.
ClearingCancelAsleep(o) ==
    /\ Alive
    /\ stack[o] # <<>>
    /\ Top(o).pc = "sleep"
    /\ \/ tasks' = [tasks EXCEPT ![o] = <<>>]
       \/ tasks' = tasks
    /\ UNCHANGED <<now, cvars, hvars, current, stack, gvars>>

\* The goroutine that uses the queue-clearing Trampoline, and the tasks it
\* runs.
NextClearing ==
    \/ Tick
    \/ InlineSchedule(Main)
    \/ \E d \in Dues : InlineScheduleFuture(Main, d)
    \/ InlineScheduleRecursive(Main)
    \/ \E d \in Dues : InlineScheduleFutureRecursive(Main, d)
    \/ InlineSelf(Main)
    \/ \E d \in Dues : InlineSelfDue(Main, d)
    \/ ClearingDrain(Main)
    \/ ClearingSleep(Main)
    \/ ClearingTaskReturn(Main)
    \/ ClearingCancel(Main)

SpecClearing == Init /\ [][NextClearing]_vars

\* The same with a second goroutine that calls Cancel during a sleep.
NextClearingAsleep ==
    \/ NextClearing
    \/ ClearingCancelAsleep(Main)

SpecClearingAsleep == Init /\ [][NextClearingAsleep]_vars

\* ------------------------------------------ trampoline, earlier variant
\* The trampoline of scheduler.go whose Wait runs the head of the queue in
\* place: the scheduling methods are those of trampoline.go, there is no
\* s.current, and the entry leaves the queue after its wait-and-run.

\* Wait: for len(s.tasks) > 0 { task := &s.tasks[0]; short or long wait.
\* The entry stays at the head of the queue.
EarlierWaitHead(o) ==
    LET t == Head(tasks[o]) IN
    /\ Alive
    /\ stack[o] # <<>>
    /\ Top(o).pc = "loop"
    /\ tasks[o] # <<>>
    /\ stack' = SetTop(o, Frame("Wait", IF t.at - now < ShortWaitLimit
                                        THEN "short" ELSE "long", t, 0))
    /\ UNCHANGED <<now, cvars, hvars, tasks, current, gvars>>

\* Wait after ShortWaitAndRun or LongWaitAndRun has returned:
\* s.tasks = s.tasks[1:], and the loop goes on.
EarlierPop(o) ==
    /\ tasks' = [tasks EXCEPT ![o] = Tail(@)]
    /\ stack' = SetTop(o, Frame("Wait", "loop", NoTask, 0))
    /\ UNCHANGED <<current, started>>

\* ShortWaitAndRun of the earlier variant: spin while the due time is
\* ahead, return when canceled, else run.
EarlierShortWaitAndRun(o) ==
    /\ Alive
    /\ stack[o] # <<>>
    /\ Top(o).pc = "short"
    /\ \/ /\ Canceled(Top(o).task)
          /\ EarlierPop(o)
       \/ /\ ~(now < Top(o).task.at)
          /\ ~Canceled(Top(o).task)
          /\ Invoke(o)
    /\ UNCHANGED <<now, cvars, nseq, iters, gvars>>

\* LongWaitAndRun of the earlier variant up to a select: with due > 0 the
\* timer is armed, else the second select is reached.
EarlierLongWaitAndRun(o) ==
    /\ Alive
    /\ stack[o] # <<>>
    /\ Top(o).pc = "long"
    /\ LET due == Top(o).task.at - now IN
       \/ /\ due > 0
          /\ stack' = SetTop(o, [Top(o) EXCEPT !.pc = "select", !.timer = now + due])
       \/ /\ ~(due > 0)
          /\ stack' = SetTop(o, [Top(o) EXCEPT !.pc = "default"])
    /\ UNCHANGED <<now, cvars, hvars, tasks, current, gvars>>

\* The first select of LongWaitAndRun: case <-task.cancel: return;
\* case <-deadline.C: task.run(), with no return after it.  The frame keeps
\* its timer while the task runs from this arm.
EarlierLongWaitSelect(o) ==
    /\ Alive
    /\ stack[o] # <<>>
    /\ Top(o).pc = "select"
    /\ \/ /\ Canceled(Top(o).task)
          /\ EarlierPop(o)
       \/ /\ now >= Top(o).timer
          /\ Invoke(o)
    /\ UNCHANGED <<now, cvars, nseq, iters, gvars>>

\* The second select of LongWaitAndRun: case <-task.cancel: return;
\* default: task.run().
EarlierLongWaitDefault(o) ==
    /\ Alive
    /\ stack[o] # <<>>
    /\ Top(o).pc = "default"
    /\ \/ /\ Canceled(Top(o).task)
          /\ EarlierPop(o)
       \/ /\ ~Canceled(Top(o).task)
          /\ Invoke(o)
    /\ UNCHANGED <<now, cvars, nseq, iters, gvars>>

\* task.run() returns: into LongWaitAndRun after its first select, which
\* goes on to the second select, or else to Wait.
EarlierTaskReturn(o) ==
    /\ Alive
    /\ stack[o] # <<>>
    /\ Top(o).pc = "run"
    /\ IF Top(o).timer > 0
       THEN /\ stack' = SetTop(o, [Top(o) EXCEPT !.pc = "default", !.timer = 0])
            /\ UNCHANGED <<tasks, current, started>>
       ELSE EarlierPop(o)
    /\ UNCHANGED <<now, cvars, nseq, iters, gvars>>

\* One goroutine uses the earlier variant; no task calls Wait.
NextEarlier ==
    \/ Tick
    \/ \E c \in Chans : Cancel(c)
    \/ Schedule(Main)
    \/ \E d \in Dues : ScheduleFuture(Main, d)
    \/ ScheduleRecursive(Main)
    \/ \E d \in Dues : ScheduleFutureRecursive(Main, d)
    \/ \E c \in Chans : Again(Main, c)
    \/ \E c \in Chans, d \in Dues : AgainDue(Main, c, d)
    \/ stack[Main] = <<>> /\ Wait(Main)
    \/ EarlierWaitHead(Main)
    \/ WaitDrained(Main)
    \/ WaitReturn(Main)
    \/ EarlierShortWaitAndRun(Main)
    \/ EarlierLongWaitAndRun(Main)
    \/ EarlierLongWaitSelect(Main)
    \/ EarlierLongWaitDefault(Main)
    \/ EarlierTaskReturn(Main)

SpecEarlier == Init /\ [][NextEarlier]_vars

\* ------------------------------------------------------------------ claims
\* The invocations on o's trampoline, in order.
Runs(o) == SelectSeq(started, LAMBDA r : r.owner = o /\ r.seq > 0)

\* C1: on one serial scheduler, entries with equal due times start in the
\* order in which they were enqueued.
C1_EqualDueStartInEnqueueOrder ==
    \A i, j \in DOMAIN started :
        (/\ i < j
         /\ started[i].owner = started[j].owner
         /\ started[i].seq > 0 /\ started[j].seq > 0
         /\ started[i].at = started[j].at) => started[i].seq < started[j].seq

\* Two entries with the same due time have both been started.
C1_Witness ==
    \E i, j \in DOMAIN started :
        /\ i < j
        /\ started[i].owner = Main /\ started[j].owner = Main
        /\ started[i].at = started[j].at

C3_DoubleCancelNoPanic == ~panicked

\* C4: when all submissions were made before Wait() (all by the main
\* goroutine), the active count is 0 once Wait() has returned.
C4_CountZeroAfterWait ==
    (mainpc = "waited" /\ \A u \in DOMAIN unit : unit[u].caller = Main)
        => active = 0

\* Wait is returning on owner o.
WaitReturning(o) ==
    IF stack[o] = <<>> THEN FALSE ELSE Top(o).pc = "return"

\* C5 as claimed: whenever Wait() returns the queue is empty, no task is
\* marked as current and Count() is 0.
C5_Original ==
    \A o \in Owners :
        WaitReturning(o) =>
            tasks[o] = <<>> /\ current[o] = NoTask /\ Count(o) = 0

\* C5 as amended: whenever Wait() returns the queue is empty; when Wait()
\* was called from outside any running task, no task is marked as current
\* and Count() is 0.
C5_Amended ==
    \A o \in Owners :
        WaitReturning(o) =>
            /\ tasks[o] = <<>>
            /\ Len(stack[o]) = 1 => current[o] = NoTask /\ Count(o) = 0

\* A Wait called from outside any task returns after it has run a task.
C5_Witness ==
    /\ WaitReturning(Main)
    /\ Len(stack[Main]) = 1
    /\ Len(Runs(Main)) >= 1

\* C6: a task whose Runner was canceled before its due time is never
\* invoked.
C6_CanceledBeforeDueNeverRuns ==
    \A i \in DOMAIN started : ~started[i].early

\* The k-th invocation of a ScheduleRecursive chain is its iteration k-1.
InIterationOrder(o) ==
    \A k \in DOMAIN started :
        (started[k].owner = o /\ started[k].kind = "rec") =>
            started[k].iter =
                Cardinality({i \in 1..(k - 1) : started[i].cancel = started[k].cancel})

C8_ChainIsSerial ==
    \A u \in Units : Depth(u) <= 1 /\ InIterationOrder(u)

\* The second iteration of a chain runs while the task of another
\* submission is running.
C8_Witness ==
    \E u, v \in DOMAIN unit :
        /\ u # v
        /\ stack[u] # <<>>
        /\ Top(u).pc = "run"
        /\ Top(u).task.iter = 1
        /\ unit[v].pc = "task"

\* The program is running, the next iteration of u's chain is due and not
\* canceled, and its unit is at the pre-run check.
ReadyToRun(u) ==
    /\ Alive
    /\ InChain(u)
    /\ Top(u).pc = "short"
    /\ ~(now < Top(u).task.at)
    /\ ~Canceled(Top(u).task)

C10_ActiveCountsUnits ==
    /\ active >= 0
    /\ active = Cardinality({u \in DOMAIN unit : unit[u].pc # "exited"})

\* A unit that was canceled and skipped has exited while another unit's
\* task is running.
C10_Witness ==
    \E u, v \in DOMAIN unit :
        /\ unit[u].pc = "exited"
        /\ unit[u].cancel \in closed
        /\ \A i \in DOMAIN started : started[i].owner # u
        /\ unit[v].pc = "task"
        /\ active = 1

\* C11: Wait() on the concurrent scheduler does not return while a unit that
\* was submitted before the call, or by a task that was still running, is
\* in flight, that is, has not exited and is still counted as active.
C11_WaitOutlastsUnits ==
    mainpc = "waited" => \A u \in DOMAIN unit : unit[u].pc = "exited"

\* The invocations made so far of the entries that carry cancel channel c.
RunsOf(c) == {i \in DOMAIN started : started[i].cancel = c /\ started[i].seq > 0}

\* C12: when Wait() returns on the serial scheduler the queue is empty and
\* every entry ever enqueued, also by tasks during the drain, has been run
\* unless its Runner was canceled.
C12_WaitDrainsLateEntries ==
    \A o \in Owners :
        WaitReturning(o) =>
            /\ tasks[o] = <<>>
            /\ \A c \in 1..nchan :
                  c \notin closed => Cardinality(RunsOf(c)) = iters[c]

\* Wait() returns after it has run three iterations of one chain, of which
\* the later ones were enqueued by the running task.
C12_Witness ==
    /\ WaitReturning(Main)
    /\ Len(stack[Main]) = 1
    /\ \E c \in 1..nchan : c \notin closed /\ iters[c] = 3 /\ Cardinality(RunsOf(c)) = 3

\* C13: no task runs before its due time: an entry of a serial scheduler
\* whose action is executing is due, and a ScheduleFuture task of the
\* concurrent scheduler with due > 0 that is executing had its timer armed
\* for the length due and the timer has fired.
C13_NeverBeforeDue ==
    /\ \A o \in Owners : \A i \in 1..Len(stack[o]) :
          stack[o][i].pc = "run" => stack[o][i].task.at <= now
    /\ \A u \in DOMAIN unit :
          (unit[u].kind = "future" /\ unit[u].due > 0 /\ unit[u].pc = "task") =>
              unit[u].timer >= unit[u].due /\ unit[u].timer <= now

\* A delayed ScheduleFuture task and a delayed entry of a private serial
\* scheduler are executing.
C13_Witness ==
    \E u, v \in DOMAIN unit :
        /\ unit[u].kind = "future" /\ unit[u].due > 0 /\ unit[u].pc = "task"
        /\ stack[v] # <<>>
        /\ Top(v).pc = "run"
        /\ Top(v).task.kind = "futrec"
        /\ Top(v).task.iter = 0
        /\ unit[v].due > 0

\* C14: when the Runner returned by ScheduleFutureRecursive(due > 0) of the
\* concurrent scheduler is canceled before the first due time, the first
\* iteration of the chain (and so every iteration) is never invoked.
C14_CancelBeforeFirstDue ==
    \A i \in DOMAIN started :
        (/\ started[i].owner \in Units
         /\ started[i].kind = "futrec"
         /\ started[i].iter = 0) => ~started[i].early

\* C15: once the Runner of a recursive chain has been canceled no iteration
\* of the chain is invoked any more.
C15_CancelStopsChain ==
    \A i \in DOMAIN started :
        started[i].kind \in {"rec", "futrec"} => ~started[i].canceled

\* The Runners whose task is executing.
RunningRunners ==
    UNION {{stack[o][i].task.cancel :
                i \in {j \in 1..Len(stack[o]) : stack[o][j].pc = "run"}} : o \in Owners}
    \cup {unit[u].cancel : u \in {v \in DOMAIN unit : unit[v].pc = "task"}}

\* C16: Cancel() on a Runner whose task is executing does not interrupt the
\* task: while every Runner handed out belongs to an executing task, no
\* call of Cancel() stops the process.
C16_CancelDoesNotInterrupt ==
    (known # {} /\ known \subseteq RunningRunners) => ~panicked

\* The numbers of the tasks whose call is still on o's stack.
OnStack(o) == {stack[o][i].task.seq : i \in 1..Len(stack[o])}

\* C17: on the Immediate scheduler a scheduling call returns only after
\* its task has run: every task whose call is no longer on the stack has
\* been invoked and nothing is ever queued.  Nested calls run depth-first:
\* the calls on the stack are nested in the order they were made, every
\* one but the innermost is suspended inside its task body, and the only
\* task not yet invoked is the innermost one, asleep until its due time.
C17_ImmediateDepthFirst ==
    /\ tasks[Main] = <<>>
    /\ current[Main] = NoTask
    /\ \A n \in 1..nseq :
          n \notin OnStack(Main) => \E i \in DOMAIN started : started[i].seq = n
    /\ \A i \in 1..Len(stack[Main]) :
          /\ i < Len(stack[Main]) =>
                /\ stack[Main][i].pc = "run"
                /\ stack[Main][i].task.seq < stack[Main][i + 1].task.seq
          /\ stack[Main][i].pc = "run" =>
                \E k \in DOMAIN started : started[k].seq = stack[Main][i].task.seq
    /\ \A i, j \in DOMAIN started : i < j => started[i].seq < started[j].seq

\* The outer task is suspended in a nested call whose task is suspended in
\* a nested call of its own, as in Example_immediate.
C17_Witness ==
    /\ Len(stack[Main]) = 3
    /\ \A i \in 1..3 : stack[Main][i].pc = "run" /\ stack[Main][i].call = "Schedule"
    /\ Len(started) = 3

\* The scheduler calls the running tasks of o have made and that have not
\* returned: every frame above the outermost one.
NestedCalls(o) == {stack[o][i].call : i \in 2..Len(stack[o])}

\* C18 as stated: on the serial scheduler, while no running task is inside
\* a Gosched call, at most one task is executing: a task scheduled by a
\* running task does not start before that task has returned.
C18_Original ==
    "Gosched" \notin NestedCalls(Main) => Depth(Main) <= 1

\* C18, amended: on the serial scheduler, while no running task is inside
\* a Gosched or a Wait call, at most one task is executing: a task
\* scheduled by a running task does not start before that task has
\* returned to the drain loop.
C18_Amended ==
    NestedCalls(Main) \cap {"Gosched", "Wait"} = {} => Depth(Main) <= 1

\* The first task of a recursive chain is running, it has called again()
\* and the next iteration is due and queued behind it.
C18_Witness ==
    /\ Len(stack[Main]) = 1
    /\ Top(Main).pc = "run"
    /\ Top(Main).task.iter = 0
    /\ \E i \in 1..Len(tasks[Main]) :
          /\ tasks[Main][i].cancel = Top(Main).task.cancel
          /\ tasks[Main][i].iter = 1
          /\ tasks[Main][i].at <= now

\* The entries that have been invoked, by number.
Invoked == {started[i].seq : i \in DOMAIN started}

\* The in-line trampoline while a task runs: the task is the head of the
\* queue and the only one executing, it was invoked once, and no entry
\* queued behind it has been invoked.
InlineSerial ==
    /\ Depth(Main) <= 1
    /\ \A i, j \in DOMAIN started : started[i].seq = started[j].seq => i = j
    /\ (stack[Main] # <<>> /\ Top(Main).pc = "run") =>
          /\ tasks[Main] # <<>>
          /\ Head(tasks[Main]) = Top(Main).task
          /\ \A i \in 2..Len(tasks[Main]) : tasks[Main][i].seq \notin Invoked

C20_OnlyEnqueue ==
    [][/\ nseq' # nseq =>
             /\ started' = started
             /\ stack' = stack
             /\ Len(tasks'[Main]) = Len(tasks[Main]) + 1
       /\ started' # started =>
             /\ stack[Main] # <<>>
             /\ Top(Main).call \in {"Wait", "Gosched"}
             /\ Top(Main).pc \in {"short", "long", "select"}]_vars

\* Three entries, a loop among them, were scheduled on the empty queue,
\* time has passed until all are due, and none has been invoked: the owner
\* has not called Wait or Gosched.
C20_Witness ==
    /\ stack[Main] = <<>>
    /\ started = <<>>
    /\ Len(tasks[Main]) = 3
    /\ \E i \in 1..3 : tasks[Main][i].kind = "loop"
    /\ \A i \in 1..3 : tasks[Main][i].at < now

\* An entry popped by o's RunTask is waiting for its due time or executing.
InRunTask(o) ==
    \E i \in 1..Len(stack[o]) : stack[o][i].pc \in {"short", "long", "select", "run"}

\* C21: Count() on the serial scheduler is the number of queued entries,
\* plus one exactly while a popped entry is waiting for its due time or
\* executing; so it is at least 1 while a task executes, also after that
\* task has called Gosched().
C21_CountIsQueuedPlusCurrent ==
    Count(Main) = Len(tasks[Main]) + (IF InRunTask(Main) THEN 1 ELSE 0)

\* C22: Gosched() called by the owner on a non-empty queue pops one entry,
\* the earliest due, processes it and returns: its activation never goes
\* back for another entry, and no queued entry is due before the one it
\* popped.  Called by another goroutine it has no effect: no entry of the
\* owner's queue is ever popped or run on another goroutine's stack, and the
\* current-task marker is set only while the owner is inside RunTask or is
\* running a task that called Wait on an empty queue.
C22_GoschedRunsOne ==
    /\ \A i \in 1..Len(stack[Main]) :
          stack[Main][i].call = "Gosched" =>
             /\ stack[Main][i].pc \in {"short", "long", "select", "run"}
             /\ stack[Main][i].task # NoTask
             /\ \A k \in 1..Len(tasks[Main]) :
                   stack[Main][i].task.at <= tasks[Main][k].at
    /\ \A th \in Units : stack[th] = <<>>
    /\ \A i \in DOMAIN started : started[i].owner = Main
    /\ current[Main] # NoTask => stack[Main] # <<>>

\* The owner is inside Gosched, which popped the earliest of three entries
\* and is running it; two entries with later due times are still queued.
C22_Witness ==
    /\ Len(stack[Main]) = 1
    /\ Top(Main).call = "Gosched"
    /\ Top(Main).pc = "run"
    /\ Len(tasks[Main]) = 2
    /\ Top(Main).task.at < tasks[Main][1].at
    /\ tasks[Main][1].at < tasks[Main][2].at

\* C23: Cancel() on the in-line trampoline discards every entry that has
\* not started: no entry is invoked once s.cancel is closed and the queue
\* is empty when the draining call has returned.  It does not interrupt the
\* task that is running: that task is not cut short by a panic.
C23_CancelDiscardsQueued ==
    /\ \A i \in DOMAIN started : ~started[i].canceled
    /\ stack[Main] = <<>> => tasks[Main] = <<>>
    /\ (SchedulerCancel \in closed /\ stack[Main] # <<>> /\ Top(Main).pc = "run") => ~panicked

C25_WaitTerminates ==
    /\ []((stack[Main] # <<>> /\ Top(Main).pc = "return") =>
             \A n \in 1..nseq :
                Cardinality({i \in DOMAIN started : started[i].seq = n}) = 1)
    /\ ((stack[Main] # <<>> /\ stack[Main][1].call = "Wait") ~> (stack[Main] = <<>>))

\* A Wait() called outside the tasks is returning after three entries have
\* run, one of them the second iteration of a recursive task and one that
\* had to wait for its due time.
C25_Witness ==
    /\ Len(stack[Main]) = 1
    /\ Top(Main).pc = "return"
    /\ nseq = 3
    /\ Len(started) = 3
    /\ \E i \in DOMAIN started : started[i].iter = 1
    /\ \E i \in DOMAIN started : started[i].at = MaxTime

\* The invocations of the loop of Runner c, as positions of the log.
LoopRuns(c) ==
    {k \in DOMAIN started : started[k].cancel = c /\ started[k].kind = "loop"}

\* The entry of a queue as the invocation log records it.
AsStarted(o, e) ==
    [owner |-> o, seq |-> e.seq, at |-> e.at, cancel |-> e.cancel,
     kind |-> e.kind, iter |-> e.iter]

\* The record of an invocation without what the log adds on cancellation.
LoggedEntry(r) ==
    [owner |-> r.owner, seq |-> r.seq, at |-> r.at, cancel |-> r.cancel,
     kind |-> r.kind, iter |-> r.iter]

\* C26: ScheduleLoop(from, task) on the serial scheduler: the first call
\* and every again(n) create exactly one entry that carries its index, the
\* entry keeps that index while it is queued, an invocation of the task is
\* the invocation of one such entry, which leaves the queue by it, so that
\* no entry is invoked twice; the entries of one loop are invoked in the
\* order in which they were created, the first being the entry with index
\* from; and when Wait() returns with the Runner not canceled every entry
\* of the loop was invoked once: the loop has ended, no iteration having
\* called again without a later invocation.
C26_LoopDeliversIndices ==
    /\ [](\A c \in 1..nchan :
            /\ \A j, k \in LoopRuns(c) : j < k => started[j].seq < started[k].seq
            /\ \A k \in LoopRuns(c) : \A e \in Pending(Main) :
                  e.cancel = c => started[k].seq < e.seq
            /\ (WaitReturning(Main) /\ c \notin closed /\ LoopRuns(c) # {}) =>
                  Cardinality(LoopRuns(c)) = iters[c])
    /\ [][/\ \A e \in Pending(Main)' :
                e.kind = "loop" =>
                   \/ e \in Pending(Main)
                   \/ /\ e.seq = nseq + 1
                      /\ nseq' = nseq + 1
                      /\ iters' = [iters EXCEPT ![e.cancel] = @ + 1]
                      /\ started' = started
          /\ (Len(started') > Len(started) /\ started'[Len(started')].kind = "loop") =>
                /\ \E e \in Pending(Main) \ Pending(Main)' :
                      LoggedEntry(started'[Len(started')]) = AsStarted(Main, e)
                /\ SubSeq(started', 1, Len(started)) = started
                /\ Len(started') = Len(started) + 1]_vars

\* A loop started with index 1 called again(0) and then again(1) in its
\* first iteration; the three entries were invoked with the indices 1, 0
\* and 1, and Wait() is returning.
C26_Witness ==
    /\ WaitReturning(Main)
    /\ Len(started) = 3
    /\ \A k \in 1..3 : started[k].kind = "loop" /\ started[k].cancel = 1
    /\ started[1].iter = 1 /\ started[2].iter = 0 /\ started[3].iter = 1
    /\ iters[1] = 3

\* The entries that have been taken off o's queue: all entries created so
\* far except those queued.
Popped(o) ==
    (1..nseq) \ {tasks[o][i].seq : i \in 1..Len(tasks[o])}

\* C27: on the serial scheduler no entry is invoked more than once,
\* whether it went through the short wait or through the long wait and its
\* timer, and when Wait() returns every entry created so far has left the
\* queue and was invoked exactly once unless its Runner was canceled.
C27_EachEntryOnce ==
    /\ \A j, k \in DOMAIN started : started[j].seq = started[k].seq => j = k
    /\ WaitReturning(Main) =>
          /\ Popped(Main) = 1..nseq
          /\ \A c \in 1..nchan :
                c \notin closed => Cardinality(RunsOf(c)) = iters[c]

\* The top frame of o's stack holds a popped entry that has not been invoked.
Waiting(o) ==
    IF stack[o] = <<>> THEN FALSE ELSE Top(o).pc \in {"short", "long", "select"}

\* C28: discarding a canceled entry of the serial scheduler has no side
\* effect: RunTask takes exactly the head off the queue, the queue does not
\* change while the popped entry waits, and the step that discards it finds
\* its Runner canceled, invokes nothing, has not invoked and does not invoke
\* the entry, and changes nothing but the position of RunTask and
\* s.current, so that the queue afterwards is the queue before the pop
\* without its head; and the other entries are still run: when Wait()
\* returns every entry whose Runner is not canceled was invoked once.
C28_DiscardHasNoSideEffect ==
    /\ [](\A c \in 1..nchan :
            (WaitReturning(Main) /\ c \notin closed) =>
                Cardinality(RunsOf(c)) = iters[c])
    /\ [][/\ (~Waiting(Main) /\ Waiting(Main)') =>
                tasks[Main] = <<Top(Main)'.task>> \o tasks'[Main]
          /\ Waiting(Main) => tasks' = tasks
          /\ (Waiting(Main) /\ ~Waiting(Main)' /\ started' = started) =>
                /\ Canceled(Top(Main).task)
                /\ \A k \in DOMAIN started : started[k].seq # Top(Main).task.seq
                /\ UNCHANGED <<now, cvars, hvars, gvars>>
                /\ current'[Main] = NoTask]_vars

\* Of three entries scheduled one after the other the second was canceled:
\* Wait() is returning with the first and the third invoked, in this order,
\* and the second discarded.
C28_Witness ==
    /\ WaitReturning(Main)
    /\ nseq = 3
    /\ nchan = 3
    /\ closed = {2}
    /\ Len(started) = 2
    /\ started[1].seq = 1
    /\ started[2].seq = 3

\* The execution units that have been started and have not ended.
Unfinished == {u \in DOMAIN unit : unit[u].pc # "exited"}

\* C29: on the concurrent scheduler a dispatch call adds exactly one
\* execution unit and raises the active count by exactly 1; a step in which
\* a chain enqueues an entry, its first or one of a self() call, adds no
\* unit and leaves the active count and the WaitGroup alone; every
\* iteration of a chain is invoked by the one unit that holds the chain's
\* Runner; and the active count never exceeds the number of units that
\* have not ended.
C29_OneUnitPerSubmission ==
    /\ [](/\ active <= Cardinality(Unfinished)
          /\ \A k \in DOMAIN started :
                started[k].seq > 0 =>
                    /\ started[k].owner \in DOMAIN unit
                    /\ unit[started[k].owner].runner = started[k].cancel
          /\ \A u, v \in DOMAIN unit :
                (unit[u].runner # 0 /\ unit[u].runner = unit[v].runner) => u = v)
    /\ [][/\ unit' # unit /\ Len(unit') # Len(unit) =>
                /\ Len(unit') = Len(unit) + 1
                /\ SubSeq(unit', 1, Len(unit)) = unit
                /\ active' = active + 1
          /\ nseq' # nseq =>
                /\ Len(unit') = Len(unit)
                /\ active' = active
                /\ wg' = wg]_vars

\* One recursive submission is active, its task has called self() and the
\* second iteration is running on the same unit: one unit, active = 1.
C29_Witness ==
    /\ Len(unit) = 1
    /\ IsRecursive(1)
    /\ active = 1
    /\ unit[1].runner # 0
    /\ iters[unit[1].runner] = 2
    /\ stack[1] # <<>>
    /\ Top(1).pc = "run"
    /\ Top(1).task.iter = 1

IsChainFrame(f) == f.task.kind \in {"rec", "futrec"}

\* C31: on the Immediate scheduler iteration k + 1 of a recursive task
\* runs inside the self() call made by iteration k: the frame of iteration
\* k > 0 lies directly on the frame of iteration k - 1 of the same task,
\* which is suspended in its body, so that while iteration n runs n + 1
\* invocations of the task are nested; a step moves the stack only by
\* pushing one frame on the top or by returning from the top frame, so
\* that iteration k resumes only after iteration k + 1 has returned, and
\* the call of iteration k + 1 is made while iteration k is the running
\* task.
C31_ImmediateRecursionNests ==
    /\ [](\A i \in 1..Len(stack[Main]) :
            (IsChainFrame(stack[Main][i]) /\ stack[Main][i].task.iter > 0) =>
                /\ i > stack[Main][i].task.iter
                /\ \A j \in 1..stack[Main][i].task.iter :
                      /\ stack[Main][i - j].task.kind = stack[Main][i].task.kind
                      /\ stack[Main][i - j].task.iter = stack[Main][i].task.iter - j
                      /\ stack[Main][i - j].pc = "run")
    /\ [][/\ Len(stack'[Main]) > Len(stack[Main]) =>
                /\ Len(stack'[Main]) = Len(stack[Main]) + 1
                /\ SubSeq(stack'[Main], 1, Len(stack[Main])) = stack[Main]
                /\ (IsChainFrame(Top(Main)') /\ Top(Main)'.task.iter > 0) =>
                      /\ Top(Main).pc = "run"
                      /\ Top(Main).task.kind = Top(Main)'.task.kind
                      /\ Top(Main).task.iter + 1 = Top(Main)'.task.iter
          /\ Len(stack'[Main]) < Len(stack[Main]) =>
                /\ stack'[Main] = SubSeq(stack[Main], 1, Len(stack[Main]) - 1)
                /\ Top(Main).pc = "run"]_vars

\* After two self() calls the third iteration of ScheduleRecursive runs
\* with three invocations of the task nested.
C31_Witness ==
    /\ Len(stack[Main]) = 3
    /\ \A i \in 1..3 :
          /\ stack[Main][i].task.kind = "rec"
          /\ stack[Main][i].task.iter = i - 1
          /\ stack[Main][i].pc = "run"
    /\ Depth(Main) = 3

\* Entry n has been popped by Main's RunTask and waits for its due time,
\* which is still ahead, with its Runner canceled.
CanceledWait(n) ==
    /\ Waiting(Main)
    /\ Top(Main).task.seq = n
    /\ Canceled(Top(Main).task)
    /\ now < Top(Main).task.at

\* The timer of ScheduleFuture unit u is pending and its Runner is canceled.
CanceledTimer(u) ==
    /\ u \in DOMAIN unit
    /\ unit[u].pc = "select"
    /\ unit[u].cancel \in closed
    /\ now < unit[u].timer

\* C32: cancellation ends a pending wait without the clock: while every
\* goroutine keeps running, and even if time stands still, a canceled
\* entry of the serial scheduler that waits for its due time, in the short
\* or in the long wait, leaves the wait, and when it leaves it before its
\* due time it was discarded, not invoked; a ScheduleFuture unit of the
\* concurrent scheduler whose Runner is canceled while its timer is
\* pending exits, which lowers the active count by 1; and a Wait() on the
\* concurrent scheduler returns when every unit in flight is canceled.
C32_CancelEndsWait ==
    /\ \A n \in 1..MaxTasks :
          CanceledWait(n) ~> ~(Waiting(Main) /\ Top(Main).task.seq = n)
    /\ \A u \in Units :
          CanceledTimer(u) ~> (u \in DOMAIN unit /\ unit[u].pc = "exited")
    /\ (mainpc = "wait" /\ \A u \in DOMAIN unit : unit[u].cancel \in closed)
          ~> (mainpc = "waited")
    /\ [][/\ (Waiting(Main) /\ ~Waiting(Main)' /\ now < Top(Main).task.at) =>
                /\ started' = started
                /\ now' = now
                /\ Canceled(Top(Main).task)
          /\ \A u \in DOMAIN unit :
                (unit[u].pc # "exited" /\ unit'[u].pc = "exited") =>
                    active' = active - 1
          /\ \A u \in DOMAIN unit :
                (unit[u].pc = "select" /\ unit'[u].pc # "select" /\ now < unit[u].timer) =>
                    /\ started' = started
                    /\ unit'[u].pc = "done"]_vars

\* A canceled unit has exited and Wait() on the concurrent scheduler has
\* returned although the due time of the unit's task was never reached.
C32_Witness ==
    /\ mainpc = "waited"
    /\ Len(unit) = 1
    /\ unit[1].pc = "exited"
    /\ unit[1].due = MaxDue
    /\ unit[1].timer > now
    /\ unit[1].cancel \in closed
    /\ started = <<>>
    /\ active = 0

\* The dispatch call that started recursive unit u has not returned.
InDispatch(u) == u \in DOMAIN unit /\ IsRecursive(u) /\ ~unit[u].returned

\* C33: ScheduleRecursive and ScheduleFutureRecursive on the concurrent
\* scheduler return, whatever the tasks and the clock do: while the call
\* and the first statements of its goroutine keep running, a call that has
\* not returned leads to its return.  The Runner it returns is not nil: it
\* is the Runner of the first entry, which the unit has enqueued on its
\* private trampoline, and each unit hands over one Runner, once.
C33_DispatchReturns ==
    /\ \A u \in Units :
          InDispatch(u) ~> (u \in DOMAIN unit /\ unit[u].returned)
    /\ [](\A u \in DOMAIN unit :
            (IsRecursive(u) /\ unit[u].returned) =>
                /\ unit[u].runner # 0
                /\ unit[u].runner \in known
                /\ iters[unit[u].runner] >= 1
                /\ unit[u].pc \notin {"counted", "spawned"})
    /\ [][\A u \in DOMAIN unit :
            unit[u].runner # 0 => unit'[u].runner = unit[u].runner]_vars

\* A ScheduleFutureRecursive call has returned its Runner while the first
\* entry of the chain is still waiting for its due time: nothing of the
\* chain has run.
C33_Witness ==
    \E u \in DOMAIN unit :
        /\ unit[u].kind = "futrec"
        /\ unit[u].returned
        /\ unit[u].runner \in known
        /\ stack[u] # <<>>
        /\ Top(u).pc = "select"
        /\ \A k \in DOMAIN started : started[k].owner # u

\* The queued entries of o whose due time has passed.
Overdue(o) == {tasks[o][i] : i \in {j \in 1..Len(tasks[o]) : tasks[o][j].at < now}}

\* The place of the entry numbered n in queue q, 0 when it is not there.
Place(q, n) ==
    IF \E i \in 1..Len(q) : q[i].seq = n
    THEN CHOOSE i \in 1..Len(q) : q[i].seq = n
    ELSE 0

\* C34 as stated: on the serial scheduler an entry whose due time has
\* passed is run after at most the entry that was executing when that time
\* passed: no other entry is invoked while it is queued and overdue.
C34_Original ==
    [][started' # started => Overdue(Main) = {}]_vars

\* C34, amended: a self-rescheduling chain cannot starve other work on the
\* serial scheduler.  An entry enqueued with a non-negative delay while an
\* entry X is queued with its due time reached is put behind X, the
\* entries already queued keeping their order, and entries are invoked in
\* the order of the queue: of two invoked entries the one created later
\* ran first only if it was due strictly earlier.  So X is run after at
\* most the entry that was executing and the entries that were queued
\* before it with a due time not later than its own: an entry invoked while
\* X is queued and overdue is due no later than X and, when due at the same
\* time, was created before X.
C34_Amended ==
    /\ [](\A i, j \in DOMAIN started :
            (i < j /\ started[i].seq > started[j].seq) =>
                started[i].at < started[j].at)
    /\ [][/\ nseq' # nseq =>
                \A i \in 1..Len(tasks[Main]) :
                   /\ tasks[Main][i].at <= now =>
                         Place(tasks'[Main], nseq') > Place(tasks'[Main], tasks[Main][i].seq)
                   /\ Place(tasks'[Main], tasks[Main][i].seq) > 0
                   /\ \A j \in 1..Len(tasks[Main]) :
                         i < j => Place(tasks'[Main], tasks[Main][i].seq)
                                     < Place(tasks'[Main], tasks[Main][j].seq)
          /\ started' # started =>
                \A x \in Overdue(Main) :
                   /\ started'[Len(started')].at <= x.at
                   /\ started'[Len(started')].at = x.at =>
                         started'[Len(started')].seq < x.seq]_vars

\* The first iteration of a chain ran while a plain entry, enqueued after
\* it, became overdue, and called again(): the plain entry ran next and the
\* second iteration of the chain only after it.
C34_Witness ==
    /\ Len(started) = 3
    /\ started[1].kind = "rec" /\ started[1].iter = 0
    /\ started[2].kind = "plain"
    /\ started[3].kind = "rec" /\ started[3].iter = 1
    /\ started[1].seq < started[2].seq
    /\ started[2].seq < started[3].seq
    /\ started[2].at < started[3].at

\* C35: on the queue-clearing Trampoline, used by one goroutine, no error
\* state is reached: also after a running task has called Cancel() the
\* task finishes and the call that drives the drain loop returns.
C35_CancelFromTaskReturns ==
    ~panicked

\* C36: on the queue-clearing Trampoline a Cancel() that has cleared the
\* queue while the drain loop sleeps until the next due time stops that
\* wait: the loop stops sleeping without a step of the clock and does not
\* invoke the task it was sleeping for.
C36_CancelStopsSleep ==
    [][(/\ stack[Main] # <<>>
        /\ Top(Main).pc = "sleep"
        /\ tasks[Main] = <<>>) =>
            /\ started' = started
            /\ ~panicked']_vars

\* C37: on the channel-based Trampoline a single Cancel(), also one made by
\* another goroutine while the drain loop is blocked until a due time,
\* leads to no error state in any interleaving with the timer: the timer
\* callback never sends on the closed channel, and a scheduling call that
\* has returned after the Cancel() has left the queue empty.
C37_CancelWhileBlockedIsSafe ==
    /\ ~panicked
    /\ (SchedulerCancel \in closed /\ stack[Main] = <<>>) => tasks[Main] = <<>>

\* C38: a Cancel() on the empty channel-based trampoline affects no later
\* task: whenever no scheduling call is in progress every task scheduled
\* so far, before or after the Cancel(), has been run.
C38_ScheduleAfterCancelRuns ==
    stack[Main] = <<>> =>
        \A n \in 1..nseq : \E k \in DOMAIN started : started[k].seq = n

====
